---- MODULE Spec2Model ----
(***************************************************************************)
(* The periodic refresh of spark-arcanum: updateCardDatabase() of          *)
(* server/cron/database-update.ts, the rules ingestion it delegates to     *)
(* (updateRulesFromWotc, updateRulesFromFile, updateRulesDatabase of       *)
(* server/rules-updater.ts), the triggers of server/index.ts, the         *)
(* GET /api/metadata route, and the rulebook parser                        *)
(* (parseComprehensiveRules, createRuleEntry) with its regular             *)
(* expressions.                                                            *)
(*                                                                         *)
(* Time is counted in whole hours.  Every await of the code is a point at  *)
(* which another invocation may run and the clock may advance, so every    *)
(* action below is the code between two awaits.  Messages are sequences of *)
(* string fragments, so that a template literal is a concatenation.        *)
(*                                                                         *)
(* Spec follows the server.  BatchSpec follows one run of                  *)
(* updateRulesDatabase, ParseSpec one call of parseComprehensiveRules and  *)
(* EntrySpec one call of createRuleEntry; a rulebook text is a sequence of *)
(* one-character strings.                                                  *)
(***************************************************************************)
EXTENDS Integers, Sequences, FiniteSets, TLC

\* ---------------------------------------------------------------- bounds
MaxInv == 2          \* invocations of updateCardDatabase in one behaviour
MaxTime == 24        \* the clock stops advancing here (hours)
TickHours == 12      \* granularity of the clock (hours)
MaxRules == 150      \* rules parsed from a non-empty rulebook
MaxBatchRules == 250 \* the largest rulebook followed through the batches
MaxAsks == 6         \* POST /api/rulings/ask requests in one behaviour
MaxWaiting == 2      \* of them, how many may be in their handler at once
MaxResets == 1       \* POST /api/rulings/new-conversation requests
MaxEntries == 2      \* entries of the deck that addCardToDeck is followed to
MaxQuantity == 5     \* copies of an entry that addCardToDeck is followed to
MaxImportLines == 2  \* lines of an imported deck list

\* ------------------------------------------------------ program constants
HOURS_24 == 24       \* period of the timer
FreshHours == 24     \* freshness window of the card data, hours
FreshDays == 7       \* freshness window of the rules, days
batchSize == 100     \* rule records per insert
HistoryLimit == 10   \* messages kept in the conversation history

Inv == 1..MaxInv

VARIABLES
    now,         \* Date.now(), hours
    started,     \* the listen callback of index.ts has run
    nextTimer,   \* when the setInterval callback is next due
    nextInv,     \* the next unused invocation
    dbMetadata,  \* rows of db_metadata with id "card_database" (0 or 1)
    rulesTable,  \* table rules: one entry per insert statement, in order
    tempFile,    \* ./temp/MagicCompRules_latest.txt exists
    inv,         \* the invocations of updateCardDatabase, by number
    lastWriter,  \* history: the invocation whose upsert wrote the metadata row last
    metaReq,     \* the GET /api/metadata request in progress, if any
    srcText,     \* the text handed to the parser
    parsedOut,   \* what the parser returned for it
    parsedDone,  \* the parser has run on srcText
    rulesReq,    \* the POST /api/rules/update request in progress, if any
    cardsReq,    \* the POST /api/admin/complete-card-database-update request
    importReq,   \* the POST /api/admin/import-rules request
    currentConversation,  \* the conversation history shared by all clients
    asks,        \* the POST /api/rulings/ask requests being handled
    asked,       \* history: how many ask requests have arrived
    epoch,       \* history: how many times the conversation has been reset
    format,      \* deck builder: the selected format
    deckCards    \* deck builder: the entries of the deck

cronVars == <<now, started, nextTimer, nextInv, dbMetadata, rulesTable, tempFile, inv,
              lastWriter, metaReq>>
fnVars == <<srcText, parsedOut, parsedDone>>
routeVars == <<rulesReq, cardsReq, importReq>>
convVars == <<currentConversation, asks, asked, epoch>>
deckVars == <<format, deckCards>>
vars == <<cronVars, fnVars, routeVars, convVars, deckVars>>

\* ------------------------------------------------------------ completions
Resolved(v) == [kind |-> "resolved", value |-> v]
Rejected(e) == [kind |-> "rejected", error |-> e]
Pending == [kind |-> "pending"]
Error(msg) == [message |-> msg]
None == [none |-> TRUE]

Min(a, b) == IF a < b THEN a ELSE b

\* ------------------------------------------------------------------ text
\* A text is a sequence of one-character strings; positions count from 1, and
\* Len(s) + 1 stands for the end of the text.
DigitChars == <<"0", "1", "2", "3", "4", "5", "6", "7", "8", "9">>
Digits == {DigitChars[x] : x \in 1..Len(DigitChars)}
Lower == {"a", "b", "c", "d", "e", "f", "g", "h", "i", "j", "k", "l", "m"}
         \cup {"n", "o", "p", "q", "r", "s", "t", "u", "v", "w", "x", "y", "z"}
Upper == {"A", "B", "C", "D", "E", "F", "G", "H", "I", "J", "K", "L", "M"}
         \cup {"N", "O", "P", "Q", "R", "S", "T", "U", "V", "W", "X", "Y", "Z"}
\* \s of a JavaScript regular expression, as far as the texts here go
Space == {" ", "\n", "\t", "\r"}
\* \w
WordChars == Digits \cup Lower \cup Upper \cup {"_"}

\* The first position from p on whose character is not in class.
SpanEnd(s, p, class) ==
    IF p > Len(s) THEN p
    ELSE CHOOSE q \in p..(Len(s) + 1) :
            /\ q = Len(s) + 1 \/ s[q] \notin class
            /\ \A r \in p..(q - 1) : s[r] \in class

\* The first position from p on whose character is in class.
SkipTo(s, p, class) ==
    IF p > Len(s) THEN p
    ELSE CHOOSE q \in p..(Len(s) + 1) :
            /\ q = Len(s) + 1 \/ s[q] \in class
            /\ \A r \in p..(q - 1) : s[r] \notin class

\* pat stands in s at position p.
MatchesAt(s, pat, p) ==
    /\ p + Len(pat) - 1 <= Len(s)
    /\ \A x \in 1..Len(pat) : s[p + x - 1] = pat[x]

\* String.prototype.indexOf from position p; 0 where JavaScript answers -1.
IndexFrom(s, pat, p) ==
    LET hits == {q \in p..(Len(s) - Len(pat) + 1) : MatchesAt(s, pat, q)}
    IN  IF hits = {} THEN 0 ELSE CHOOSE q \in hits : \A r \in hits : q <= r

indexOf(s, pat) == IndexFrom(s, pat, 1)

\* String.prototype.substring(start) with start counted from 1.
substring(s, start) == SubSeq(s, start, Len(s))

\* The last position up to q whose character is not whitespace (p - 1 if none).
TrimEnd(s, p, q) ==
    IF q < p THEN q
    ELSE CHOOSE e \in (p - 1)..q :
            /\ e = p - 1 \/ s[e] \notin Space
            /\ \A r \in (e + 1)..q : s[r] \in Space

\* String.prototype.trim of s[p .. q].
TrimOf(s, p, q) == SubSeq(s, SpanEnd(s, p, Space), TrimEnd(s, p, q))
trim(s) == TrimOf(s, 1, Len(s))

\* sub stands somewhere in s.
Contains(s, sub) == \E p \in 1..(Len(s) + 1) : MatchesAt(s, sub, p)

\* parseInt of a run of digits.
DigitVal(c) == (CHOOSE x \in 1..Len(DigitChars) : DigitChars[x] = c) - 1
RECURSIVE ParseDigits(_, _)
ParseDigits(s, q) ==
    IF q = 0 THEN 0 ELSE ParseDigits(s, q - 1) * Len(DigitChars) + DigitVal(s[q])
parseInt(s) == ParseDigits(s, Len(s))

\* -------------------------------------------------- the regular expressions
\* A match: at is where it starts, to the position after it (lastIndex), and
\* from .. to - 1 the capture that the code reads besides the number.
NoMatch == [found |-> FALSE]

CharAt(s, p, c) == p <= Len(s) /\ s[p] = c

\* \d{3} at p
ThreeDigits(s, p) == p + 2 <= Len(s) /\ \A x \in 0..2 : s[p + x] \in Digits

\* \d{3}\.\d+[a-z]* at p, as rules-updater.ts:56 has it: the position after
\* it, 0 if it does not stand there.  Both runs are greedy and nothing after
\* them can take a digit or a letter back.
RuleNumberEnd(s, p) ==
    IF ThreeDigits(s, p) /\ CharAt(s, p + 3, ".")
    THEN LET b == SpanEnd(s, p + 4, Digits)
         IN  IF b > p + 4 THEN SpanEnd(s, b, Lower) ELSE 0
    ELSE 0

\* (?=\d{3}\.\d+[a-z]*\.|$) at e
RuleLookahead(s, e) ==
    \/ e = Len(s) + 1
    \/ LET c == RuleNumberEnd(s, e) IN c # 0 /\ CharAt(s, c, ".")

\* rulePattern (rules-updater.ts:56) tried at p.  The lazy body [^0-9]*? grows
\* until the lookahead holds; the lookahead needs a digit or the end of the
\* text, so it is decided at the first digit after the body's start.
RuleMatchAt(s, p) ==
    LET c == RuleNumberEnd(s, p)
    IN  IF c = 0 \/ ~CharAt(s, c, ".") THEN NoMatch
        ELSE LET b == SpanEnd(s, c + 1, Space)
                 e == SkipTo(s, b, Digits)
             IN  IF b > c + 1 /\ RuleLookahead(s, e)
                 THEN [found |-> TRUE, at |-> p, number |-> SubSeq(s, p, c - 1),
                       from |-> b, to |-> e]
                 ELSE NoMatch

\* \.\s+([A-Z][^0-9]*?) with the "." at d: the title runs to the first digit.
TitleAt(s, d) ==
    IF CharAt(s, d, ".")
    THEN LET u == SpanEnd(s, d + 1, Space)
         IN  IF u > d + 1 /\ u <= Len(s) /\ s[u] \in Upper
             THEN [found |-> TRUE, from |-> u, to |-> SkipTo(s, u + 1, Digits)]
             ELSE NoMatch
    ELSE NoMatch

\* (?=\d{3}\.) and (?=\d{3}\.\d+)
ChapterLookahead(s, e) == ThreeDigits(s, e) /\ CharAt(s, e + 3, ".")
SectionLookahead(s, e) ==
    ChapterLookahead(s, e) /\ e + 4 <= Len(s) /\ s[e + 4] \in Digits

\* chapterPattern (rules-updater.ts:62) tried at p: (\d+) takes the digits
\* from p on, wherever p is.
ChapterMatchAt(s, p) ==
    LET d == SpanEnd(s, p, Digits)
        t == TitleAt(s, d)
    IN  IF d > p /\ t.found /\ ChapterLookahead(s, t.to)
        THEN [found |-> TRUE, at |-> p, number |-> SubSeq(s, p, d - 1),
              from |-> t.from, to |-> t.to]
        ELSE NoMatch

\* sectionPattern (rules-updater.ts:72) tried at p
SectionMatchAt(s, p) ==
    LET t == TitleAt(s, p + 3)
    IN  IF ThreeDigits(s, p) /\ t.found /\ SectionLookahead(s, t.to)
        THEN [found |-> TRUE, at |-> p, number |-> SubSeq(s, p, p + 2),
              from |-> t.from, to |-> t.to]
        ELSE NoMatch

\* exampleRegex (rules-updater.ts:108) tried at p: the capture starts after
\* the whitespace and ends with the first "." from there on.
ExampleWord == <<"E", "x", "a", "m", "p", "l", "e", ":">>
ExampleMatchAt(s, p) ==
    IF MatchesAt(s, ExampleWord, p)
    THEN LET w == SpanEnd(s, p + Len(ExampleWord), Space)
             f == SkipTo(s, w, {"."})
         IN  IF f <= Len(s)
             THEN [found |-> TRUE, at |-> p, from |-> w, to |-> f + 1]
             ELSE NoMatch
    ELSE NoMatch

\* [A-Z][a-z]+ at p: the position after it, 0 if it does not stand there.
WordEnd(s, p) ==
    IF p <= Len(s) /\ s[p] \in Upper
    THEN LET q == SpanEnd(s, p + 1, Lower) IN IF q > p + 1 THEN q ELSE 0
    ELSE 0

\* (?:\s+[A-Z][a-z]+)*\b after a word that ends before q: the longest chain
\* of further words that ends at a word boundary; 0 if not even q is one.
RECURSIVE ChainEnd(_, _)
ChainEnd(s, q) ==
    LET w == SpanEnd(s, q, Space)
        n == IF w > q THEN WordEnd(s, w) ELSE 0
        longer == IF n # 0 THEN ChainEnd(s, n) ELSE 0
    IN  IF longer # 0 THEN longer
        ELSE IF q > Len(s) \/ s[q] \notin WordChars THEN q
        ELSE 0

\* The keyword expression of rules-updater.ts:116 tried at p.
KeywordMatchAt(s, p) ==
    LET q == WordEnd(s, p)
        e == IF q # 0 THEN ChainEnd(s, q) ELSE 0
    IN  IF (p = 1 \/ s[p - 1] \notin WordChars) /\ e # 0
        THEN [found |-> TRUE, at |-> p, from |-> p, to |-> e]
        ELSE NoMatch

MatchAt(re, s, p) ==
    CASE re = "rule" -> RuleMatchAt(s, p)
      [] re = "chapter" -> ChapterMatchAt(s, p)
      [] re = "section" -> SectionMatchAt(s, p)
      [] re = "example" -> ExampleMatchAt(s, p)
      [] re = "keyword" -> KeywordMatchAt(s, p)

\* The loop while ((m = re.exec(s)) !== null) of a global expression, and
\* String.prototype.match with one: the leftmost match from lastIndex on, then
\* on from its end.  No match of these expressions is empty.
RECURSIVE MatchesFrom(_, _, _)
MatchesFrom(re, s, p) ==
    LET hits == {q \in p..Len(s) : MatchAt(re, s, q).found}
    IN  IF hits = {} THEN <<>>
        ELSE LET m == MatchAt(re, s, CHOOSE q \in hits : \A r \in hits : q <= r)
             IN  <<m>> \o MatchesFrom(re, s, m.to)

Matches(re, s) == MatchesFrom(re, s, 1)

\* String.prototype.replace(re, '') given the matches ms of re, from p on.
RECURSIVE Cut(_, _, _, _)
Cut(s, ms, x, p) ==
    IF x > Len(ms) THEN SubSeq(s, p, Len(s))
    ELSE SubSeq(s, p, ms[x].at - 1) \o Cut(s, ms, x + 1, ms[x].to)

\* String.prototype.split('.')
RECURSIVE split(_)
split(s) ==
    LET d == indexOf(s, <<".">>)
    IN  IF d = 0 THEN <<s>>
        ELSE <<SubSeq(s, 1, d - 1)>> \o split(SubSeq(s, d + 1, Len(s)))

\* ------------------------------------------------- parseComprehensiveRules
MinRuleText == 10    \* bodies of this length or shorter are dropped
KeywordLimit == 10   \* keywords kept for one rule

Anchor == <<"1", ".", " ", "G", "a", "m", "e", " ", "C", "o", "n", "c", "e", "p", "t", "s">>
GameConcepts == <<"G", "a", "m", "e", " ", "C", "o", "n", "c", "e", "p", "t", "s">>

Captured(s, m) == SubSeq(s, m.from, m.to - 1)

\* Mutant: the examples are listed and left in the text.
ExampleFreeTextKeep(text, ex) == trim(text)

\* rules-updater.ts:126: text.replace(/Example:\s*[^.]*\./g, '').trim()
ExampleFreeText(text, ex) == trim(Cut(text, ex, 1, 1))

\* rules-updater.ts:105-134
createRuleEntry(ruleNumber, text, chapter, section) ==
    LET ex == Matches("example", text)
        kw == Matches("keyword", text)
    IN  [ruleNumber |-> ruleNumber,
         text |-> ExampleFreeText(text, ex),
         examples |-> [x \in 1..Len(ex) |-> trim(Captured(text, ex[x]))],
         keywords |-> [x \in 1..Min(Len(kw), KeywordLimit) |-> Captured(text, kw[x])],
         chapter |-> chapter,
         section |-> section,
         subsection |-> IF indexOf(ruleNumber, <<".">>) # 0
                        THEN split(ruleNumber)[2] ELSE <<>>,
         relatedRules |-> <<>>]

\* rules-updater.ts:66-69, 76-79: titles[k] after the loop over the matches ms
\* has assigned titles[parseInt(number)] = title.trim() for each in turn; the
\* empty text where nothing was assigned.
TitleOf(s, ms, k) ==
    LET hits == {x \in 1..Len(ms) : parseInt(ms[x].number) = k}
    IN  IF hits = {} THEN <<>>
        ELSE trim(Captured(s, ms[CHOOSE x \in hits : \A y \in hits : y <= x]))

\* a || b of two strings
Or(a, b) == IF a # <<>> THEN a ELSE b

\* rules-updater.ts:83-97: the loop over the matches of rulePattern from the
\* x-th on; cur holds currentChapter and currentSection.
RECURSIVE RuleLoop(_, _, _, _, _, _)
RuleLoop(s, ms, x, chapters, sections, cur) ==
    IF x > Len(ms) THEN <<>>
    ELSE LET ruleNumber == ms[x].number
             ruleText == trim(Captured(s, ms[x]))
             rulePrefix == parseInt(split(ruleNumber)[1])
             chapterNum == rulePrefix \div 100
             nxt == [chapter |-> Or(TitleOf(s, chapters, chapterNum), cur.chapter),
                     section |-> Or(TitleOf(s, sections, rulePrefix), cur.section)]
         IN  IF Len(ruleText) > MinRuleText
             THEN <<createRuleEntry(ruleNumber, ruleText, nxt.chapter, nxt.section)>>
                  \o RuleLoop(s, ms, x + 1, chapters, sections, nxt)
             ELSE RuleLoop(s, ms, x + 1, chapters, sections, cur)

\* rules-updater.ts:52-99, once the anchor has been found
ParseFrom(cleanText) ==
    RuleLoop(cleanText, Matches("rule", cleanText), 1,
             Matches("chapter", cleanText), Matches("section", cleanText),
             [chapter |-> GameConcepts, section |-> <<>>])

\* Mutant: the text is scanned from its start whether the anchor is there or not.
parseWithoutAnchor(rulesText) == ParseFrom(rulesText)

\* rules-updater.ts:42-100
parseComprehensiveRules(rulesText) ==
    LET startIndex == indexOf(rulesText, Anchor)
    IN  IF startIndex = 0 THEN <<>>
        ELSE ParseFrom(substring(rulesText, startIndex))

\* rules-updater.ts:14-25, the numbers of rules that updateRulesDatabase finds
\* in the file it reads: what the parser makes of a file without the anchor,
\* or the rules of a rulebook.
NoAnchorText ==
    <<"C", "o", "n", "t", "e", "n", "t", "s", "\n">>
    \o <<"1", "0", "0", ".", "1", ".", " ", "T", "h", "e", "s", "e", " ", "a", "r", "e", " ", "t", "h", "e", " ", "r", "u", "l", "e", "s", ".", "\n">>
RuleCounts == {Len(parseComprehensiveRules(NoAnchorText)), MaxRules}

\* An invocation before it is called.
IdleInv ==
    [pc |-> "idle", trigger |-> "none", startedAt |-> 0, doneBefore |-> {},
     cardResult |-> None, rulesResult |-> None, nowCap |-> 0,
     wotc |-> Pending, wotcError |-> None, dl |-> "none", fallback |-> FALSE,
     caller |-> "none", n |-> 0, i |-> 0, touchedRules |-> FALSE,
     disturbed |-> FALSE, urd |-> Pending,
     steps |-> <<>>, outcome |-> Pending]

\* No text is being parsed.
FnIdle ==
    /\ srcText = <<>>
    /\ parsedOut = <<>>
    /\ parsedDone = FALSE

\* An administrative request that has not been made.  exists and readable
\* record what fs.existsSync and fs.readFileSync found, n and i are the locals
\* parsedRules.length and i of its run of updateRulesDatabase, status is the
\* HTTP status of the answer (0 while there is none).
RequestIdle ==
    [pc |-> "idle", exists |-> TRUE, readable |-> TRUE, n |-> 0, i |-> 0,
     status |-> 0, error |-> None]

\* No administrative request has been made.
RoutesIdle ==
    /\ rulesReq = RequestIdle
    /\ cardsReq = RequestIdle
    /\ importReq = RequestIdle

\* A handler of POST /api/rulings/ask that is free.  epoch is the number of
\* resets that had happened when its request arrived.
AskIdle == [pc |-> "idle", epoch |-> 0]

\* The requests that may be in their handler at the same time.
Asks == 1..MaxWaiting

\* rules-updater.ts:294: the history is empty when the routes are registered.
ConvIdle ==
    /\ currentConversation = <<>>
    /\ asks = [q \in Asks |-> AskIdle]
    /\ asked = 0
    /\ epoch = 0

\* part_000:73-76: the deck builder opens on Standard with an empty deck.
DeckIdle ==
    /\ format = "Standard"
    /\ deckCards = <<>>

Init ==
    /\ FnIdle
    /\ RoutesIdle
    /\ ConvIdle
    /\ DeckIdle
    /\ metaReq = "idle"
    /\ now = 0
    /\ started = FALSE
    /\ nextTimer = 0
    /\ nextInv = 1
    /\ dbMetadata = <<>>
    \* The rule table as an earlier run of the process may have left it: empty,
    \* or the batches of one refresh, each stamped by its own insert.
    /\ rulesTable \in
         { <<>>,
           << [run |-> 0, from |-> 0, to |-> batchSize,
               createdAt |-> 0 - FreshDays * 24],
              [run |-> 0, from |-> batchSize, to |-> MaxRules,
               createdAt |-> TickHours - FreshDays * 24] >> }
    /\ tempFile = FALSE
    /\ inv = [k \in Inv |-> IdleInv]
    /\ lastWriter = 0

\* ------------------------------------------------- updateCardDatabase, pure
\* Mutant: the age is taken in minutes and compared with the window in hours.
IsUpToDateMinutes(rows, t) ==
    /\ rows # <<>>
    /\ (t - rows[1].last_updated) * 60 < FreshHours

\* database-update.ts:18-24: the row exists, has a last_updated, and is younger
\* than the freshness window.
IsUpToDate(rows, t) ==
    /\ rows # <<>>
    /\ t - rows[1].last_updated < FreshHours

\* database-update.ts:26-30
SkipResult(lastUpdate) ==
    [success |-> TRUE, message |-> <<"Database is up to date">>,
     last_updated |-> lastUpdate.last_updated]

\* database-update.ts:47-52: a rejected rules update becomes a failure result.
RulesCaught(rulesError) ==
    [success |-> FALSE, message |-> <<"Rules update failed: ">> \o rulesError.message]

\* Mutant: the metadata row is written whatever the card refresh returned.
WritesMetadataAlways(cardResult, rulesResult) == TRUE

\* Mutant: the metadata row is written only when both refreshes succeeded.
WritesMetadataBoth(cardResult, rulesResult) ==
    cardResult.success /\ rulesResult.success

\* database-update.ts:56: the metadata row is written only after a successful
\* card refresh.
WritesMetadata(cardResult, rulesResult) == cardResult.success

\* database-update.ts:58
Description(cardResult, rulesResult) ==
    cardResult.message \o <<". ">> \o rulesResult.message

\* Mutant: the combined flag forgets the rules result.
CombinedResultCardsOnly(cardResult, rulesResult) ==
    [success |-> cardResult.success,
     message |-> <<"Cards: ">> \o cardResult.message \o <<". Rules: ">>
                 \o rulesResult.message,
     cardResult |-> cardResult, rulesResult |-> rulesResult]

\* database-update.ts:82-87
CombinedResult(cardResult, rulesResult) ==
    [success |-> cardResult.success /\ rulesResult.success,
     message |-> <<"Cards: ">> \o cardResult.message \o <<". Rules: ">>
                 \o rulesResult.message,
     cardResult |-> cardResult, rulesResult |-> rulesResult]

\* Mutant: the outer catch logs and throws again.
OuterCatchRethrow(error) == Rejected(error)

\* database-update.ts:88-94: whatever is thrown inside the try becomes a result.
OuterCatch(error) ==
    Resolved([success |-> FALSE,
              message |-> <<"Error updating database: ">> \o error.message])

\* database-update.ts:60-75: insert ... onConflictDoUpdate on the primary key.
Upsert(rows, values, set) ==
    IF rows = <<>>
    THEN << values >>
    ELSE << [rows[1] EXCEPT !.last_updated = set.last_updated,
                            !.description = set.description,
                            !.total_cards = set.total_cards] >>

Log(r, e) == [r EXCEPT !.steps = Append(@, e)]
\* The promise of updateCardDatabase settles as c; its locals are gone.
Finish(r, c) ==
    [r EXCEPT !.pc = "done", !.outcome = c, !.caller = "none", !.n = 0, !.i = 0,
              !.disturbed = FALSE]

\* database-update.ts:15-36, once the select of the metadata row has returned.
StalenessCheck(r, rows, t) ==
    IF IsUpToDate(rows, t)
    THEN Finish(Log(r, "check"), Resolved(SkipResult(rows[1])))
    ELSE [Log(Log(r, "check"), "cards:start") EXCEPT !.pc = "cards"]

\* Mutant: a failed card refresh is tried again within the same cycle.
AfterRulesRetry(r, s, t) ==
    LET rulesResult == IF s.kind = "resolved" THEN s.value ELSE RulesCaught(s.error)
        r1 == [Log(r, "rules:end") EXCEPT !.wotc = s, !.rulesResult = rulesResult,
                                          !.caller = "none"]
    IN  IF r.cardResult.success
        THEN [Log(r1, "meta:start") EXCEPT !.pc = "writeMeta", !.nowCap = t]
        ELSE [Log(r1, "cards:start") EXCEPT !.pc = "cards", !.wotc = Pending]

\* database-update.ts:45-87, once updateRulesFromWotc() has settled as s.
AfterRules(r, s, t) ==
    LET rulesResult == IF s.kind = "resolved" THEN s.value ELSE RulesCaught(s.error)
        r1 == [Log(r, "rules:end") EXCEPT !.wotc = s, !.rulesResult = rulesResult,
                                          !.caller = "none"]
    IN  IF WritesMetadata(r.cardResult, rulesResult)
        THEN [Log(r1, "meta:start") EXCEPT !.pc = "writeMeta", !.nowCap = t]
        ELSE Finish(r1, Resolved(CombinedResult(r.cardResult, rulesResult)))

\* database-update.ts:36-45, once completeCardDatabaseUpdate() has settled as c:
\* a rejection leaves the try, a result is kept and the rules update is called.
AfterCards(r, c) ==
    IF c.kind = "rejected"
    THEN Finish(Log(r, "cards:end"), OuterCatch(c.error))
    ELSE [Log(Log(r, "cards:end"), "rules:start") EXCEPT
              !.cardResult = c.value, !.pc = "rulesSelect"]

\* ------------------------------------------------ updateRulesFromWotc, pure
\* rules-updater.ts:163-165, ages in hours
RulesFresh(createdAt, t) == t - createdAt < FreshDays * 24

\* rules-updater.ts:166-169; Math.round of the age in days
SkipRulesResult(createdAt, t) ==
    [success |-> TRUE,
     message |-> <<"Rules were updated ", ToString((t - createdAt + 12) \div 24),
                   " days ago. Skipping update.">>]

\* rules-updater.ts:202-205
DownloadedResult ==
    [success |-> TRUE,
     message |-> <<"Comprehensive rules updated successfully from official source">>]

\* rules-updater.ts:229-232
FallbackResult ==
    [success |-> TRUE, message |-> <<"Used local comprehensive rules file as fallback">>]

\* rules-updater.ts:234-237
FallbackFailed(error, fallbackError) ==
    [success |-> FALSE,
     message |-> <<"Failed to update rules: ">> \o error.message
                 \o <<". Fallback also failed: ">> \o fallbackError.message]

\* rules-updater.ts:185-221: the download promise is returned from inside the
\* try without being awaited, so its rejection settles the promise of
\* updateRulesFromWotc itself and never enters the catch of line 223.
DownloadPromise(c) == c

\* rules-updater.ts:139-146 called from the catch of 223-239: the local file is
\* missing, or updateRulesDatabase starts on it (read, then the delete is awaited).
Fallback(r, error, exists, n, t) ==
    IF exists
    THEN [r EXCEPT !.pc = "urdDelete", !.caller = "fallback", !.fallback = TRUE,
                   !.wotcError = error, !.n = n, !.i = 0, !.disturbed = FALSE,
                   !.urd = Pending]
    ELSE AfterRules([r EXCEPT !.fallback = TRUE, !.wotcError = error],
                    Resolved(FallbackFailed(error,
                        Error(<<"Comprehensive rules file not found">>))), t)

\* The end of updateRulesDatabase (rules-updater.ts:32-36) as its caller sees
\* it: the finish handler of the download (197-208) or the fallback (228-238).
\* c is how updateRulesDatabase ended, temp whether the temp file still exists.
UrdSettled(r, c, temp, t) ==
    IF r.caller = "download"
    THEN IF c.kind = "rejected"
         THEN AfterRules(r, DownloadPromise(Rejected(Error(
                  <<"Failed to process downloaded rules: ">> \o c.error.message))), t)
         ELSE IF temp
         THEN AfterRules(r, DownloadPromise(Resolved(DownloadedResult)), t)
         ELSE AfterRules(r, DownloadPromise(Rejected(Error(
                  <<"Failed to process downloaded rules: ">> \o <<"ENOENT">>))), t)
    ELSE IF c.kind = "rejected"
         THEN AfterRules(r, Resolved(FallbackFailed(r.wotcError, c.error)), t)
         ELSE AfterRules(r, Resolved(FallbackResult), t)

\* rules-updater.ts:31-36: updateRulesDatabase returns, or its catch logs and
\* throws the error again; urd records how its promise settled.
UrdDoneSwallow(r, c, temp, t) ==
    UrdSettled([r EXCEPT !.urd = Resolved(None)], Resolved(None), temp, t)

UrdDone(r, c, temp, t) ==
    UrdSettled([r EXCEPT !.urd = c], c, temp, t)

\* fs.unlinkSync(tempFilePath) of rules-updater.ts:200 runs only after a
\* successful updateRulesDatabase on the downloaded file.
TempAfterUrd(r, c, temp) ==
    IF r.caller = "download" /\ c.kind = "resolved" THEN FALSE ELSE temp

\* ---------------------------------------------------------------- inputs
\* What the external card-loading collaborator may answer.
CardOutcomes ==
    { Resolved([success |-> TRUE, message |-> <<"Card database updated">>]),
      Resolved([success |-> FALSE, message |-> <<"Card download failed">>]),
      Rejected(Error(<<"card service error">>)) }

\* database-update.ts:100-111: what getCardCount() returns; the card table is
\* the collaborator's and its size is not followed here.
CardCount == "count of cards"

DbError == Error(<<"connection terminated">>)

\* How the https.get of rules-updater.ts:188-220 may end.
DownloadOutcomes == {"ok", "status", "network", "file"}

\* --------------------------------------------------------------- triggers
Quiescent == \A k \in Inv : inv[k].pc \in {"idle", "done"}

Invoke(k, trigger) ==
    inv' = [inv EXCEPT ![k] = [@ EXCEPT !.pc = "readMeta", !.trigger = trigger,
                !.startedAt = now,
                !.doneBefore = {j \in Inv : inv[j].pc = "done"}]]

\* index.ts:73-100: the listen callback of a (re)started process calls
\* updateCardDatabase() once and arms the 24-hour timer.
Startup ==
    /\ Quiescent
    /\ nextInv <= MaxInv
    /\ Invoke(nextInv, "startup")
    /\ started' = TRUE
    /\ nextTimer' = now + HOURS_24
    /\ nextInv' = nextInv + 1
    /\ UNCHANGED <<now, dbMetadata, rulesTable, tempFile, lastWriter>>
    /\ UNCHANGED <<metaReq, fnVars, routeVars, convVars, deckVars>>

\* index.ts:95-100: the setInterval callback.
TimerFire ==
    /\ started
    /\ now >= nextTimer
    /\ nextInv <= MaxInv
    /\ Invoke(nextInv, "timer")
    /\ nextTimer' = nextTimer + HOURS_24
    /\ nextInv' = nextInv + 1
    /\ UNCHANGED <<now, started, dbMetadata, rulesTable, tempFile, lastWriter>>
    /\ UNCHANGED <<metaReq, fnVars, routeVars, convVars, deckVars>>

\* The clock; a due timer callback runs before the clock moves on.
Tick ==
    /\ now + TickHours <= MaxTime
    /\ ~(started /\ now >= nextTimer /\ nextInv <= MaxInv)
    /\ now' = now + TickHours
    /\ UNCHANGED <<started, nextTimer, nextInv, dbMetadata, rulesTable, tempFile, inv,
                   lastWriter>>
    /\ UNCHANGED <<metaReq, fnVars, routeVars, convVars, deckVars>>

\* ------------------------------------------------------ updateCardDatabase
\* database-update.ts:15-36: the select of the metadata row returns or throws.
CheckStaleness(k) ==
    /\ inv[k].pc = "readMeta"
    /\ \E ok \in BOOLEAN :
         inv' = [inv EXCEPT ![k] =
                    IF ok THEN StalenessCheck(@, dbMetadata, now)
                          ELSE Finish(@, OuterCatch(DbError))]
    /\ UNCHANGED <<now, started, nextTimer, nextInv, dbMetadata, rulesTable, tempFile,
                   lastWriter>>
    /\ UNCHANGED <<metaReq, fnVars, routeVars, convVars, deckVars>>

\* database-update.ts:36-45: completeCardDatabaseUpdate() settles.
CardRefresh(k) ==
    /\ inv[k].pc = "cards"
    /\ \E c \in CardOutcomes : inv' = [inv EXCEPT ![k] = AfterCards(@, c)]
    /\ UNCHANGED <<now, started, nextTimer, nextInv, dbMetadata, rulesTable, tempFile,
                   lastWriter>>
    /\ UNCHANGED <<metaReq, fnVars, routeVars, convVars, deckVars>>

\* rules-updater.ts:159-188: the select ... limit(1) on the rule table returns
\* one row, whichever the database picks (the query has no ORDER BY), or throws.
RulesGate(k) ==
    /\ inv[k].pc = "rulesSelect"
    /\ \/ \E exists \in BOOLEAN, n \in RuleCounts :
             /\ inv' = [inv EXCEPT ![k] = Fallback(@, DbError, exists, n, now)]
             /\ UNCHANGED tempFile
       \/ \E j \in 1..Len(rulesTable) :
             /\ RulesFresh(rulesTable[j].createdAt, now)
             /\ inv' = [inv EXCEPT ![k] =
                    AfterRules(@, Resolved(SkipRulesResult(rulesTable[j].createdAt, now)),
                               now)]
             /\ UNCHANGED tempFile
       \/ /\ \/ rulesTable = <<>>
             \/ \E j \in 1..Len(rulesTable) : ~RulesFresh(rulesTable[j].createdAt, now)
          /\ inv' = [inv EXCEPT ![k] = [@ EXCEPT !.pc = "download", !.dl = "started"]]
          /\ tempFile' = TRUE
    /\ UNCHANGED <<now, started, nextTimer, nextInv, dbMetadata, rulesTable, lastWriter>>
    /\ UNCHANGED <<metaReq, fnVars, routeVars, convVars, deckVars>>

\* rules-updater.ts:188-220: the response arrives, or the request or the file
\* stream fails; on 'finish' updateRulesDatabase reads the temp file (14) and
\* awaits the delete (17).
DownloadSettle(k) ==
    /\ inv[k].pc = "download"
    /\ \E o \in DownloadOutcomes, n \in RuleCounts :
         \/ /\ o = "status"
            /\ inv' = [inv EXCEPT ![k] = AfterRules([@ EXCEPT !.dl = "failed"],
                   DownloadPromise(Rejected(Error(
                       <<"Failed to download rules. HTTP status: ", "404">>))), now)]
            /\ UNCHANGED tempFile
         \/ /\ o = "network"
            /\ inv' = [inv EXCEPT ![k] = AfterRules([@ EXCEPT !.dl = "failed"],
                   DownloadPromise(Rejected(Error(
                       <<"Network error downloading rules: ", "ECONNRESET">>))), now)]
            /\ UNCHANGED tempFile
         \/ /\ o = "file"
            /\ tempFile
            /\ inv' = [inv EXCEPT ![k] = AfterRules([@ EXCEPT !.dl = "unsaved"],
                   DownloadPromise(Rejected(Error(
                       <<"Failed to save rules file: ", "ENOSPC">>))), now)]
            /\ tempFile' = FALSE
         \/ /\ o = "ok"
            /\ inv' = [inv EXCEPT ![k] =
                   IF tempFile
                   THEN [@ EXCEPT !.pc = "urdDelete", !.caller = "download",
                                  !.dl = "ok", !.n = n, !.i = 0, !.disturbed = FALSE,
                                  !.urd = Pending]
                   ELSE UrdDone([@ EXCEPT !.caller = "download", !.dl = "ok"],
                                Rejected(Error(<<"ENOENT">>)), tempFile, now)]
            /\ UNCHANGED tempFile
    /\ UNCHANGED <<now, started, nextTimer, nextInv, dbMetadata, rulesTable, lastWriter>>
    /\ UNCHANGED <<metaReq, fnVars, routeVars, convVars, deckVars>>

\* ------------------------------------------------------ updateRulesDatabase
\* rules-updater.ts:17: db.delete(rules) leaves no row.
DeleteNone(table) == table

DeleteAll(table) == <<>>

\* rules-updater.ts:27-28: the rows of one insert, parsedRules.slice(i, i +
\* batchSize), stamped by the database with the time of the insert.
BatchOf(k, i, n, t) ==
    [run |-> k, from |-> i, to |-> Min(i + batchSize, n), createdAt |-> t]

\* rules-updater.ts:26: the loop goes on while i < parsedRules.length.
MoreBatchesInclusive(i, n) == i <= n

MoreBatches(i, n) == i < n

\* History: run k of updateRulesDatabase has written to the rule table while
\* the other runs of f that are under way were between their read and their end.
Writing(r) == r.pc \in {"urdDelete", "urdInsert"}
Disturb(f, k) ==
    [j \in Inv |-> IF j # k /\ Writing(inv[j])
                   THEN [f[j] EXCEPT !.disturbed = TRUE]
                   ELSE f[j]]

\* rules-updater.ts:17-26: the delete returns or throws; the text is parsed.
DeleteRules(k) ==
    /\ inv[k].pc = "urdDelete"
    /\ \E ok \in BOOLEAN :
         IF ~ok
         THEN /\ inv' = [inv EXCEPT ![k] =
                     UrdDone(@, Rejected(DbError), tempFile, now)]
              /\ UNCHANGED <<rulesTable, tempFile>>
         ELSE /\ rulesTable' = DeleteAll(rulesTable)
              /\ IF MoreBatches(0, inv[k].n)
                 THEN /\ inv' = Disturb([inv EXCEPT ![k] =
                             [@ EXCEPT !.pc = "urdInsert", !.touchedRules = TRUE]], k)
                      /\ UNCHANGED tempFile
                 ELSE /\ inv' = Disturb([inv EXCEPT ![k] =
                             UrdDone([@ EXCEPT !.touchedRules = TRUE],
                                     Resolved(None), tempFile, now)], k)
                      /\ tempFile' = TempAfterUrd(inv[k], Resolved(None), tempFile)
    /\ UNCHANGED <<now, started, nextTimer, nextInv, dbMetadata, lastWriter>>
    /\ UNCHANGED <<metaReq, fnVars, routeVars, convVars, deckVars>>

\* rules-updater.ts:26-30: one batch is inserted, or the insert throws.
InsertBatch(k) ==
    /\ inv[k].pc = "urdInsert"
    /\ \E ok \in BOOLEAN :
         IF ~ok
         THEN /\ inv' = [inv EXCEPT ![k] =
                     UrdDone(@, Rejected(DbError), tempFile, now)]
              /\ UNCHANGED <<rulesTable, tempFile>>
         ELSE LET r == inv[k]
              IN  /\ rulesTable' = Append(rulesTable, BatchOf(k, r.i, r.n, now))
                  /\ IF MoreBatches(r.i + batchSize, r.n)
                     THEN /\ inv' = Disturb([inv EXCEPT ![k] =
                                 [@ EXCEPT !.i = @ + batchSize]], k)
                          /\ UNCHANGED tempFile
                     ELSE /\ inv' = Disturb([inv EXCEPT ![k] =
                                 UrdDone([@ EXCEPT !.i = @ + batchSize],
                                         Resolved(None), tempFile, now)], k)
                          /\ tempFile' = TempAfterUrd(r, Resolved(None), tempFile)
    /\ UNCHANGED <<now, started, nextTimer, nextInv, dbMetadata, lastWriter>>
    /\ UNCHANGED <<metaReq, fnVars, routeVars, convVars, deckVars>>

\* database-update.ts:60-87: the two counts are taken and the upsert returns or
\* throws.
UpsertMetadata(k) ==
    /\ inv[k].pc = "writeMeta"
    /\ \E ok \in BOOLEAN :
         LET r == inv[k]
             description == Description(r.cardResult, r.rulesResult)
             values == [id |-> "card_database", last_updated |-> r.nowCap,
                        description |-> description, total_cards |-> CardCount]
             set == [last_updated |-> r.nowCap, description |-> description,
                     total_cards |-> CardCount]
         IN  IF ok
             THEN /\ dbMetadata' = Upsert(dbMetadata, values, set)
                  /\ lastWriter' = k
                  /\ inv' = [inv EXCEPT ![k] = Finish(Log(@, "meta:end"),
                                Resolved(CombinedResult(r.cardResult, r.rulesResult)))]
             ELSE /\ inv' = [inv EXCEPT ![k] = Finish(@, OuterCatch(DbError))]
                  /\ UNCHANGED <<dbMetadata, lastWriter>>
    /\ UNCHANGED <<now, started, nextTimer, nextInv, rulesTable, tempFile>>
    /\ UNCHANGED <<metaReq, fnVars, routeVars, convVars, deckVars>>

\* ------------------------------------------------------- GET /api/metadata
\* rules-updater.ts:1202-1206: the select finds no "card_database" row and the
\* handler goes on to count the cards.  (With a row it answers and writes
\* nothing.)
MetadataMissing ==
    /\ metaReq = "idle"
    /\ dbMetadata = <<>>
    /\ metaReq' = "count"
    /\ UNCHANGED <<now, started, nextTimer, nextInv, dbMetadata, rulesTable, tempFile,
                   inv, lastWriter, fnVars, routeVars, convVars, deckVars>>

\* rules-updater.ts:1207-1223: the count returns; the handler inserts a row
\* stamped with the present time.  The insert fails on the primary key when a
\* row has appeared meanwhile, and the handler answers 500.
MetadataCreate ==
    /\ metaReq = "count"
    /\ metaReq' = "idle"
    /\ dbMetadata' =
         IF dbMetadata = <<>>
         THEN << [id |-> "card_database", last_updated |-> now,
                  total_cards |-> CardCount,
                  description |-> <<"Initial database metadata">>] >>
         ELSE dbMetadata
    /\ UNCHANGED <<now, started, nextTimer, nextInv, rulesTable, tempFile, inv,
                   lastWriter, fnVars, routeVars, convVars, deckVars>>

Next ==
    \/ Startup
    \/ TimerFire
    \/ Tick
    \/ \E k \in Inv : CheckStaleness(k)
    \/ \E k \in Inv : CardRefresh(k)
    \/ \E k \in Inv : RulesGate(k)
    \/ \E k \in Inv : DownloadSettle(k)
    \/ \E k \in Inv : DeleteRules(k)
    \/ \E k \in Inv : InsertBatch(k)
    \/ \E k \in Inv : UpsertMetadata(k)
    \/ MetadataMissing
    \/ MetadataCreate

Spec == Init /\ [][Next]_vars

\* ================================================================= claims
Done(k) == inv[k].pc = "done"
Has(k, step) == \E x \in 1..Len(inv[k].steps) : inv[k].steps[x] = step
UpToDateMessage == <<"Database is up to date">>

\* The invocation returned "Database is up to date" and called neither refresh.
Skipped(r) ==
    /\ r.pc = "done"
    /\ r.outcome.kind = "resolved"
    /\ r.outcome.value.success = TRUE
    /\ r.outcome.value.message = UpToDateMessage
    /\ r.steps = <<"check">>

\* The card refresh of invocation k is over and failed: it returned success
\* false, or it threw.
CardFailed(k) ==
    /\ Has(k, "cards:end")
    /\ \/ inv[k].cardResult = None
       \/ ~inv[k].cardResult.success

CardSucceeded(k) ==
    /\ Has(k, "cards:end")
    /\ inv[k].cardResult # None
    /\ inv[k].cardResult.success

\* updateRulesFromWotc() of invocation k settled without a success result.
RulesFailed(k) ==
    \/ inv[k].wotc.kind = "rejected"
    \/ inv[k].wotc.kind = "resolved" /\ ~inv[k].wotc.value.success

\* C1, as stated: of two invocations made one after the other within 24 hours
\* (both having read the metadata row), the second returns "Database is up to
\* date" and calls neither refresh.
C1_SecondCallSkips ==
    \A i \in Inv, j \in Inv :
        ( /\ Has(i, "check")
          /\ Has(j, "check")
          /\ j \in inv[i].doneBefore
          /\ inv[i].startedAt - inv[j].startedAt < FreshHours )
        => Skipped(inv[i])

\* C1, amended: when the metadata row was last written by a cycle of an earlier
\* invocation and the staleness check of a later invocation reads it less than
\* 24 hours after the time that cycle wrote, the later invocation returns
\* "Database is up to date" and calls neither the card nor the rules refresh.
C1_SkipsAfterWrittenCycle ==
    [][ \A i \in Inv :
          ( /\ inv[i].pc = "readMeta"
            /\ inv'[i].steps # <<>>
            /\ lastWriter # 0
            /\ now - inv[lastWriter].nowCap < FreshHours )
          => Skipped(inv'[i]) ]_vars

C1_Witness ==
    \E i \in Inv :
        /\ Skipped(inv[i])
        /\ lastWriter \in inv[i].doneBefore
        /\ inv[i].startedAt > inv[lastWriter].nowCap

\* C2: every finished invocation of updateCardDatabase resolved, with a boolean
\* success and a message, whatever its steps did; none rejected.
C2_NeverRejects ==
    \A k \in Inv :
        Done(k) =>
            /\ inv[k].outcome.kind = "resolved"
            /\ inv[k].outcome.value.success \in BOOLEAN
            /\ Len(inv[k].outcome.value.message) >= 1

\* A rejected rules update followed by a failing upsert, and a later invocation
\* that was still made.
C2_Witness ==
    \E k \in Inv, j \in Inv :
        /\ Done(k)
        /\ inv[k].wotc.kind = "rejected"
        /\ inv[k].outcome.value.message = <<"Error updating database: ">> \o DbError.message
        /\ k \in inv[j].doneBefore
        /\ inv[j].trigger = "timer"

\* C3: updateRulesFromWotc() never rejects.
C3_WotcNeverRejects ==
    \A k \in Inv : inv[k].wotc.kind # "rejected"

\* C4: when the download fails (network error, status other than 200) the
\* local rulebook is used: updateRulesFromFile is called, and its success is
\* reported with the fallback message.
C4_DownloadFailureFallsBack ==
    \A k \in Inv :
        (inv[k].dl = "failed" /\ inv[k].wotc.kind # "pending")
        => /\ inv[k].fallback
           /\ inv[k].wotc.kind = "resolved"

NewestCreatedAt(table) ==
    CHOOSE c \in {table[x].createdAt : x \in 1..Len(table)} :
        \A y \in 1..Len(table) : table[y].createdAt <= c

\* C5: when the select returns and the newest rule record is younger than 7
\* days, updateRulesFromWotc() resolves to a success whose message ends in
\* "Skipping update.", starts no download and leaves the rule table alone.
C5_SkipsWhenNewestIsYoung ==
    [][ \A k \in Inv :
          ( /\ inv[k].pc = "rulesSelect"
            /\ inv'[k].pc # "rulesSelect"
            /\ ~inv'[k].fallback
            /\ rulesTable # <<>>
            /\ RulesFresh(NewestCreatedAt(rulesTable), now) )
          => /\ inv'[k].wotc.kind = "resolved"
             /\ inv'[k].wotc.value.success
             /\ inv'[k].wotc.value.message[3] = " days ago. Skipping update."
             /\ inv'[k].dl = "none"
             /\ rulesTable' = rulesTable ]_vars

\* C6, as stated: a cycle whose card refresh failed still upserts the metadata
\* row, and reports failure.
C6_FailedCardsStillPersist ==
    \A k \in Inv :
        (Done(k) /\ CardFailed(k))
        => /\ Has(k, "meta:end")
           /\ ~inv[k].outcome.value.success

\* C6, amended: a cycle whose card refresh failed never writes the metadata
\* row (it never reaches the upsert and is not the row's last writer), and it
\* reports failure.
C6_FailedCardsWriteNothing ==
    \A k \in Inv :
        CardFailed(k)
        => /\ ~Has(k, "meta:start")
           /\ inv[k].pc # "writeMeta"
           /\ lastWriter # k
           /\ Done(k) => ( /\ inv[k].outcome.kind = "resolved"
                           /\ ~inv[k].outcome.value.success )

\* The card refresh returned a failure, the rules update succeeded, the cycle
\* is over and reports failure; the row a former cycle wrote is still there.
C6_Witness ==
    \E k \in Inv :
        /\ Done(k)
        /\ CardFailed(k)
        /\ inv[k].cardResult # None
        /\ ~RulesFailed(k)
        /\ ~inv[k].outcome.value.success
        /\ lastWriter \notin {0, k}

\* C7: a cycle whose card refresh failed still calls updateRulesFromWotc, and
\* reports failure.
C7_RulesRunAfterFailedCards ==
    \A k \in Inv :
        (Done(k) /\ CardFailed(k))
        => /\ Has(k, "rules:start")
           /\ ~inv[k].outcome.value.success

\* C8: after a successful card refresh a failed rules update (a failure result
\* or a rejection) leads to the metadata write all the same: the cycle goes on
\* to the upsert with the time of that moment, and the upsert leaves the row
\* with that time and the description "<card message>. <rules message>".
C8_RulesFailureDoesNotBlockWrite ==
    [][ \A k \in Inv :
          /\ ( /\ inv[k].pc # inv'[k].pc
               /\ inv'[k].wotc.kind # "pending"
               /\ inv[k].wotc.kind = "pending"
               /\ CardSucceeded(k)
               /\ \/ inv'[k].wotc.kind = "rejected"
                  \/ ~inv'[k].wotc.value.success )
             => /\ inv'[k].pc = "writeMeta"
                /\ inv'[k].nowCap = now
          /\ ( /\ inv[k].pc = "writeMeta"
               /\ RulesFailed(k)
               /\ inv'[k].steps # inv[k].steps )
             => /\ Len(dbMetadata') = 1
                /\ dbMetadata'[1].id = "card_database"
                /\ dbMetadata'[1].last_updated = inv[k].nowCap
                /\ dbMetadata'[1].description =
                     inv[k].cardResult.message \o <<". ">> \o
                     ( IF inv[k].wotc.kind = "rejected"
                       THEN <<"Rules update failed: ">> \o inv[k].wotc.error.message
                       ELSE inv[k].wotc.value.message ) ]_vars

C8_Witness ==
    \E k \in Inv :
        /\ Done(k)
        /\ CardSucceeded(k)
        /\ inv[k].wotc.kind = "rejected"
        /\ Has(k, "meta:end")
        /\ lastWriter = k
        /\ dbMetadata[1].last_updated = inv[k].nowCap
        /\ dbMetadata[1].description =
             inv[k].cardResult.message \o <<". ", "Rules update failed: ">>
             \o inv[k].wotc.error.message

\* The cycle returned from line 82, not from the skip nor from the catch.
NormalReturn(k) ==
    /\ Done(k)
    /\ Has(k, "rules:end")
    /\ inv[k].outcome.kind = "resolved"
    /\ "cardResult" \in DOMAIN inv[k].outcome.value

\* C9: the success flag of a cycle that returns normally is the conjunction
\* of the card result's success and the success of the rules update, a
\* rejected rules update counting as a failure.
C9_SuccessIsConjunction ==
    \A k \in Inv :
        NormalReturn(k)
        => inv[k].outcome.value.success =
             ( /\ inv[k].cardResult.success
               /\ inv[k].wotc.kind = "resolved"
               /\ inv[k].wotc.value.success )

\* Cards succeeded, the rules update rejected, the cycle returned failure.
C9_Witness ==
    \E k \in Inv :
        /\ NormalReturn(k)
        /\ inv[k].cardResult.success
        /\ inv[k].wotc.kind = "rejected"
        /\ ~inv[k].outcome.value.success

StepOrder ==
    <<"check", "cards:start", "cards:end", "rules:start", "rules:end",
      "meta:start", "meta:end">>

\* C10: the steps of one invocation happen in the order staleness check, card
\* refresh, rules refresh, metadata write, each begun only when the one before
\* is over and none more than once.
C10_StepsInOrder ==
    \A k \in Inv :
        /\ Len(inv[k].steps) <= Len(StepOrder)
        /\ inv[k].steps = SubSeq(StepOrder, 1, Len(inv[k].steps))

C10_Witness ==
    \E k \in Inv : Done(k) /\ inv[k].steps = StepOrder

\* ---------------------------------------------- updateRulesDatabase alone
\* The numbers of parsed rules followed through one run of updateRulesDatabase:
\* none, one, around one batch, two full batches, two batches and a half.
BatchCounts ==
    {0, 1, batchSize - 1, batchSize, batchSize + 1, 2 * batchSize, MaxBatchRules}

\* Invocation 1 as the startup call leaves it when updateRulesDatabase is
\* entered: the metadata row was absent, the card refresh returned c, and then
\* either the select of the rules gate threw and the local file is read
\* (viaDownload false) or the download finished and the temp file is read.
AtUrdStart(c, viaDownload, n) ==
    LET r0 == [IdleInv EXCEPT !.pc = "readMeta", !.trigger = "startup"]
        r1 == AfterCards(StalenessCheck(r0, <<>>, 0), c)
    IN  IF viaDownload
        THEN [r1 EXCEPT !.pc = "urdDelete", !.caller = "download", !.dl = "ok",
                        !.n = n, !.i = 0]
        ELSE Fallback(r1, DbError, TRUE, n, 0)

BatchInit ==
    /\ FnIdle
    /\ RoutesIdle
    /\ ConvIdle
    /\ DeckIdle
    /\ metaReq = "idle"
    /\ now = 0
    /\ started = TRUE
    /\ nextTimer = HOURS_24
    /\ nextInv = 2
    /\ dbMetadata = <<>>
    /\ lastWriter = 0
    /\ \E c \in {o \in CardOutcomes : o.kind = "resolved"},
          viaDownload \in BOOLEAN, n \in BatchCounts :
          /\ inv = [k \in Inv |-> IF k = 1 THEN AtUrdStart(c, viaDownload, n)
                                           ELSE IdleInv]
          /\ tempFile = viaDownload
          /\ rulesTable \in
               { <<>>,
                 << [run |-> 0, from |-> 0, to |-> MaxRules,
                     createdAt |-> 0 - FreshDays * 24] >> }

BatchNext ==
    \/ \E k \in Inv : DeleteRules(k)
    \/ \E k \in Inv : InsertBatch(k)

BatchSpec == BatchInit /\ [][BatchNext]_vars

\* --------------------------------------------------- the rulebooks parsed
\* A rulebook is a head (with the anchor at its start, after a title line, or
\* without it), the header of section 100 or none, and one or two rule
\* entries, each on a line of its own.
Heads ==
    { <<"1", ".", " ", "G", "a", "m", "e", " ", "C", "o", "n", "c", "e", "p", "t", "s", "\n">>,
      <<"M", "a", "g", "i", "c", " ", "R", "u", "l", "e", "s", "\n", "1", ".", " ", "G", "a", "m", "e", " ", "C", "o", "n", "c", "e", "p", "t", "s", "\n">>,
      <<"C", "o", "n", "t", "e", "n", "t", "s", "\n">> }
Sections == { <<>>, <<"1", "0", "0", ".", " ", "G", "e", "n", "e", "r", "a", "l", "\n">> }
FirstNumbers == { <<"1", "0", "0", ".", "1">>, <<"1", "0", "0", ".", "1", "a", "b">> }
SecondNumbers == { <<"1", "0", "0", ".", "2">>, <<"2", "0", "0", ".", "1">> }
\* a plain body, one with a digit in it, one with an example, one of exactly
\* MinRuleText characters
Bodies ==
    { <<"T", "h", "e", "s", "e", " ", "a", "r", "e", " ", "t", "h", "e", " ", "r", "u", "l", "e", "s", ".">>,
      <<"D", "r", "a", "w", " ", "2", " ", "c", "a", "r", "d", "s", " ", "t", "h", "e", "n", ".">>,
      <<"P", "l", "a", "y", "e", "r", "s", " ", "w", "i", "n", ".", " ", "E", "x", "a", "m", "p", "l", "e", ":", " ", "A", " ", "p", "l", "a", "y", "e", "r", " ", "d", "r", "a", "w", "s", " ", "a", " ", "c", "a", "r", "d", ".">>,
      <<"T", "e", "n", " ", "c", "h", "a", "r", "s", ".">> }

Line(number, body) == number \o <<".", " ">> \o body \o <<"\n">>

Texts ==
    { h \o c \o Line(n1, b1) \o rest :
        h \in Heads, c \in Sections, n1 \in FirstNumbers, b1 \in Bodies,
        rest \in {<<>>} \cup {Line(n2, b2) : n2 \in SecondNumbers, b2 \in Bodies} }

\* The state of the server while a function is followed on its own.
ServerIdle ==
    /\ RoutesIdle
    /\ ConvIdle
    /\ DeckIdle
    /\ metaReq = "idle"
    /\ now = 0
    /\ started = FALSE
    /\ nextTimer = 0
    /\ nextInv = 1
    /\ dbMetadata = <<>>
    /\ rulesTable = <<>>
    /\ tempFile = FALSE
    /\ inv = [k \in Inv |-> IdleInv]
    /\ lastWriter = 0

ParseInit ==
    /\ ServerIdle
    /\ srcText \in Texts
    /\ parsedOut = <<>>
    /\ parsedDone = FALSE

\* rules-updater.ts:21: parseComprehensiveRules(rulesText) is called and returns.
Parse ==
    /\ ~parsedDone
    /\ parsedOut' = parseComprehensiveRules(srcText)
    /\ parsedDone' = TRUE
    /\ UNCHANGED <<srcText, cronVars, routeVars, convVars, deckVars>>

ParseNext == Parse

ParseSpec == ParseInit /\ [][ParseNext]_vars

\* ------------------------------------------------------ the bodies entered
\* A body handed to createRuleEntry: text before, an example or none (well
\* formed, with a period inside it, without the space, without its period),
\* text after.
BodyStarts ==
    { <<>>,
      <<"P", "l", "a", "y", "e", "r", "s", " ", "w", "i", "n", ".", " ">>,
      <<"A", " ", "c", "a", "r", "d", ".", " ">>,
      <<"M", "r", ".", " ", "S", "m", "i", "t", "h", " ">> }
BodyExamples ==
    { <<>>,
      <<"E", "x", "a", "m", "p", "l", "e", ":", " ", "A", " ", "c", "a", "r", "d", ".">>,
      <<"E", "x", "a", "m", "p", "l", "e", ":", " ", "M", "r", ".", " ", "S", "m", "i", "t", "h", " ", "w", "i", "n", "s", ".">>,
      <<"E", "x", "a", "m", "p", "l", "e", ":", "N", "o", " ", "s", "p", "a", "c", "e", ".">>,
      <<"E", "x", "a", "m", "p", "l", "e", ":", " ", "u", "n", "f", "i", "n", "i", "s", "h", "e", "d">> }
BodyEnds ==
    { <<>>,
      <<" ", "M", "o", "r", "e", " ", "t", "e", "x", "t", ".">>,
      <<" ", "E", "x", "a", "m", "p", "l", "e", ":", " ", "S", "e", "c", "o", "n", "d", " ", "o", "n", "e", ".">> }
EntryBodies == {a \o b \o c : a \in BodyStarts, b \in BodyExamples, c \in BodyEnds}
EntryNumber == <<"1", "0", "0", ".", "1">>

EntryInit ==
    /\ ServerIdle
    /\ srcText \in EntryBodies
    /\ parsedOut = <<>>
    /\ parsedDone = FALSE

\* rules-updater.ts:96: createRuleEntry is called on one body and returns.
CreateEntry ==
    /\ ~parsedDone
    /\ parsedOut' = <<createRuleEntry(EntryNumber, srcText, GameConcepts, <<>>)>>
    /\ parsedDone' = TRUE
    /\ UNCHANGED <<srcText, cronVars, routeVars, convVars, deckVars>>

EntryNext == CreateEntry

EntrySpec == EntryInit /\ [][EntryNext]_vars

\* ------------------------------------------------ the administrative routes
\* The runs of updateRulesDatabase that the routes start are told from the
\* invocations of updateCardDatabase by their number in the rule table.
RouteRun == MaxInv + 1
ImportRun == MaxInv + 2

Answered(req, status, error) ==
    [req EXCEPT !.pc = "done", !.status = status, !.error = error]

\* Mutant: a file that is missing or cannot be read counts as an empty text.
ReadSourceLenient(req, exists, readable, n) ==
    [req EXCEPT !.pc = "delete", !.exists = exists, !.readable = readable,
                !.n = IF exists /\ readable THEN n ELSE 0, !.i = 0]

\* rules-updater.ts:139-147 and 12-17, as POST /api/rules/update (479-488)
\* sees them: updateRulesFromFile throws when the local file does not exist;
\* fs.readFileSync throws, inside the try of updateRulesDatabase, when the file
\* cannot be read, and the catch throws the error again; otherwise the delete
\* is sent.  n is the number of rules the text holds.
ReadSource(req, exists, readable, n) ==
    IF ~exists
    THEN Answered([req EXCEPT !.exists = FALSE], 500,
                  Error(<<"Comprehensive rules file not found">>))
    ELSE IF ~readable
    THEN Answered([req EXCEPT !.readable = FALSE], 500, Error(<<"EACCES">>))
    ELSE [req EXCEPT !.pc = "delete", !.n = n, !.i = 0]

\* rules-updater.ts:479-482: POST /api/rules/update calls updateRulesFromFile()
\* whatever the age of the data.
RulesUpdateRequest ==
    /\ rulesReq.pc = "idle"
    /\ \E exists \in BOOLEAN, readable \in BOOLEAN, n \in RuleCounts :
         rulesReq' = ReadSource(rulesReq, exists, readable, n)
    /\ UNCHANGED <<cronVars, fnVars, convVars, deckVars, cardsReq, importReq>>

\* rules-updater.ts:17-26 for the run of the route: the delete returns or
\* throws; the route answers 500 to what is thrown (484-487).
RulesUpdateDelete ==
    /\ rulesReq.pc = "delete"
    /\ \E ok \in BOOLEAN :
         IF ~ok
         THEN /\ rulesReq' = Answered(rulesReq, 500, DbError)
              /\ UNCHANGED <<rulesTable, inv>>
         ELSE /\ rulesTable' = DeleteAll(rulesTable)
              /\ inv' = Disturb(inv, 0)
              /\ rulesReq' = IF MoreBatches(0, rulesReq.n)
                             THEN [rulesReq EXCEPT !.pc = "insert"]
                             ELSE Answered(rulesReq, 200, None)
    /\ UNCHANGED <<now, started, nextTimer, nextInv, dbMetadata, tempFile, lastWriter,
                   metaReq, fnVars, convVars, deckVars, cardsReq, importReq>>

\* rules-updater.ts:26-30 for the run of the route: one batch is inserted, or
\* the insert throws; after the last batch the route answers 200 (483).
RulesUpdateInsert ==
    /\ rulesReq.pc = "insert"
    /\ \E ok \in BOOLEAN :
         IF ~ok
         THEN /\ rulesReq' = Answered(rulesReq, 500, DbError)
              /\ UNCHANGED <<rulesTable, inv>>
         ELSE /\ rulesTable' =
                    Append(rulesTable, BatchOf(RouteRun, rulesReq.i, rulesReq.n, now))
              /\ inv' = Disturb(inv, 0)
              /\ rulesReq' =
                    IF MoreBatches(rulesReq.i + batchSize, rulesReq.n)
                    THEN [rulesReq EXCEPT !.i = @ + batchSize]
                    ELSE Answered([rulesReq EXCEPT !.i = @ + batchSize], 200, None)
    /\ UNCHANGED <<now, started, nextTimer, nextInv, dbMetadata, tempFile, lastWriter,
                   metaReq, fnVars, convVars, deckVars, cardsReq, importReq>>

\* rules-updater.ts:444-449: POST /api/admin/complete-card-database-update
\* calls completeCardDatabaseUpdate() whatever the age of the data.
CardsUpdateRequest ==
    /\ cardsReq.pc = "idle"
    /\ cardsReq' = [cardsReq EXCEPT !.pc = "cards"]
    /\ UNCHANGED <<cronVars, fnVars, convVars, deckVars, rulesReq, importReq>>

\* rules-updater.ts:449-475: the card reload settles; a failure is answered
\* with 500, a success with the number of cards, which is counted first.
CardsUpdateSettle ==
    /\ cardsReq.pc = "cards"
    /\ \E c \in CardOutcomes :
         cardsReq' =
            IF c.kind = "rejected" THEN Answered(cardsReq, 500, c.error)
            ELSE IF ~c.value.success THEN Answered(cardsReq, 500, Error(c.value.message))
            ELSE [cardsReq EXCEPT !.pc = "count"]
    /\ UNCHANGED <<cronVars, fnVars, convVars, deckVars, rulesReq, importReq>>

\* rules-updater.ts:459-475: the count returns or throws.
CardsUpdateCount ==
    /\ cardsReq.pc = "count"
    /\ \E ok \in BOOLEAN :
         cardsReq' = IF ok THEN Answered(cardsReq, 200, None)
                           ELSE Answered(cardsReq, 500, DbError)
    /\ UNCHANGED <<cronVars, fnVars, convVars, deckVars, rulesReq, importReq>>

\* rules-updater.ts:1147-1150: POST /api/admin/import-rules sends its delete of
\* the rule table whatever the age of the data.
ImportRulesRequest ==
    /\ importReq.pc = "idle"
    /\ importReq' = [importReq EXCEPT !.pc = "delete"]
    /\ UNCHANGED <<cronVars, fnVars, convVars, deckVars, rulesReq, cardsReq>>

\* rules-updater.ts:1150-1164: the delete returns or throws.
ImportRulesDelete ==
    /\ importReq.pc = "delete"
    /\ \E ok \in BOOLEAN :
         IF ~ok
         THEN /\ importReq' = Answered(importReq, 500, DbError)
              /\ UNCHANGED <<rulesTable, inv>>
         ELSE /\ rulesTable' = DeleteAll(rulesTable)
              /\ inv' = Disturb(inv, 0)
              /\ importReq' = [importReq EXCEPT !.pc = "import"]
    /\ UNCHANGED <<now, started, nextTimer, nextInv, dbMetadata, tempFile, lastWriter,
                   metaReq, fnVars, convVars, deckVars, rulesReq, cardsReq>>

\* rules-updater.ts:1153-1164: rulesService.importComprehensiveRules() settles.
\* The service is a collaborator; of what it does only this is followed: it
\* throws, or it has put the rules of its own source into the table.
ImportRulesSettle ==
    /\ importReq.pc = "import"
    /\ \E ok \in BOOLEAN :
         IF ~ok
         THEN /\ importReq' = Answered(importReq, 500, Error(<<"import failed">>))
              /\ UNCHANGED <<rulesTable, inv>>
         ELSE /\ rulesTable' = Append(rulesTable, BatchOf(ImportRun, 0, batchSize, now))
              /\ inv' = Disturb(inv, 0)
              /\ importReq' = Answered(importReq, 200, None)
    /\ UNCHANGED <<now, started, nextTimer, nextInv, dbMetadata, tempFile, lastWriter,
                   metaReq, fnVars, convVars, deckVars, rulesReq, cardsReq>>

\* The metadata row and the rule table as a cycle that has just ended left
\* them.
FreshRow ==
    [id |-> "card_database", last_updated |-> 0, total_cards |-> CardCount,
     description |-> Description([success |-> TRUE,
                                  message |-> <<"Card database updated">>],
                                 DownloadedResult)]
FreshRules ==
    << [run |-> 0, from |-> 0, to |-> batchSize, createdAt |-> 0],
       [run |-> 0, from |-> batchSize, to |-> MaxRules, createdAt |-> 0] >>

\* The server when the requests arrive.  Either the data is fresh and the
\* startup call has found it so, or the startup call (the row was absent) is
\* entering updateRulesDatabase on the local file.
AdminInit ==
    /\ FnIdle
    /\ RoutesIdle
    /\ ConvIdle
    /\ DeckIdle
    /\ metaReq = "idle"
    /\ now = 0
    /\ started = TRUE
    /\ nextTimer = HOURS_24
    /\ nextInv = 2
    /\ lastWriter = 0
    /\ tempFile = FALSE
    /\ \/ /\ dbMetadata = << FreshRow >>
          /\ rulesTable = FreshRules
          /\ inv = [k \in Inv |->
                      IF k = 1
                      THEN StalenessCheck([IdleInv EXCEPT !.pc = "readMeta",
                                                          !.trigger = "startup"],
                                          << FreshRow >>, 0)
                      ELSE IdleInv]
       \/ /\ dbMetadata = <<>>
          /\ rulesTable = <<>>
          /\ \E c \in {o \in CardOutcomes : o.kind = "resolved"}, n \in RuleCounts :
               inv = [k \in Inv |-> IF k = 1 THEN AtUrdStart(c, FALSE, n) ELSE IdleInv]

AdminNext ==
    \/ RulesUpdateRequest
    \/ RulesUpdateDelete
    \/ RulesUpdateInsert
    \/ CardsUpdateRequest
    \/ CardsUpdateSettle
    \/ CardsUpdateCount
    \/ ImportRulesRequest
    \/ ImportRulesDelete
    \/ ImportRulesSettle
    \/ \E k \in Inv : DeleteRules(k)
    \/ \E k \in Inv : InsertBatch(k)

AdminSpec == AdminInit /\ [][AdminNext]_vars

\* ------------------------------------------------- the conversation routes
\* rules-updater.ts:978 and 984: one message; e is the number of resets that
\* had happened when the question it belongs to was asked.
Message(role, e) == [role |-> role, epoch |-> e]

\* rules-updater.ts:987-991: the last ten messages are kept.
Trimmed(conversation) ==
    IF Len(conversation) > HistoryLimit
    THEN SubSeq(conversation, Len(conversation) - HistoryLimit + 1, Len(conversation))
    ELSE conversation

\* rules-updater.ts:948-981: a request arrives.  Without a question it is
\* answered 400; when it names cards the handler first awaits storage.getCard;
\* otherwise the question is pushed and the AI call is awaited.
AskRequest(q) ==
    /\ asks[q].pc = "idle"
    /\ \A p \in Asks : p < q => asks[p].pc # "idle"
    /\ asked < MaxAsks
    /\ asked' = asked + 1
    /\ \E question \in BOOLEAN, cards \in BOOLEAN :
         IF ~question
         THEN UNCHANGED <<asks, currentConversation>>
         ELSE IF cards
         THEN /\ asks' = [asks EXCEPT ![q] = [pc |-> "cards", epoch |-> epoch]]
              /\ UNCHANGED currentConversation
         ELSE /\ asks' = [asks EXCEPT ![q] = [pc |-> "ai", epoch |-> epoch]]
              /\ currentConversation' =
                    Append(currentConversation, Message("user", epoch))
    /\ UNCHANGED <<cronVars, fnVars, routeVars, deckVars, epoch>>

\* rules-updater.ts:957-981: storage.getCard returns, the question is pushed and
\* the AI call is awaited; or it throws and the catch answers 500.
AskCards(q) ==
    /\ asks[q].pc = "cards"
    /\ \E ok \in BOOLEAN :
         IF ok
         THEN /\ asks' = [asks EXCEPT ![q].pc = "ai"]
              /\ currentConversation' =
                    Append(currentConversation, Message("user", asks[q].epoch))
         ELSE /\ asks' = [asks EXCEPT ![q] = AskIdle]
              /\ UNCHANGED currentConversation
    /\ UNCHANGED <<cronVars, fnVars, routeVars, deckVars, asked, epoch>>

\* rules-updater.ts:981-997: getCardRuling settles.  The answer is pushed and
\* the history cut to its last ten messages; a rejection goes to the catch,
\* which answers 500.
AskAnswer(q) ==
    /\ asks[q].pc = "ai"
    /\ asks' = [asks EXCEPT ![q] = AskIdle]
    /\ \E ok \in BOOLEAN :
         IF ok
         THEN currentConversation' =
                 Trimmed(Append(currentConversation,
                                Message("assistant", asks[q].epoch)))
         ELSE UNCHANGED currentConversation
    /\ UNCHANGED <<cronVars, fnVars, routeVars, deckVars, asked, epoch>>

\* rules-updater.ts:1015-1018: POST /api/rulings/new-conversation assigns a new
\* empty array to the shared variable.
NewConversation ==
    /\ epoch < MaxResets
    /\ currentConversation' = <<>>
    /\ epoch' = epoch + 1
    /\ UNCHANGED <<cronVars, fnVars, routeVars, deckVars, asks, asked>>

ConvInit ==
    /\ FnIdle
    /\ ServerIdle

ConvNext ==
    \/ \E q \in Asks : AskRequest(q)
    \/ \E q \in Asks : AskCards(q)
    \/ \E q \in Asks : AskAnswer(q)
    \/ NewConversation

ConvSpec == ConvInit /\ [][ConvNext]_vars

\* ---------------------------------------------------------- the deck builder
\* part_000:57-67: the formats and the number of copies each allows.
FormatNames ==
    {"Standard", "Pioneer", "Modern", "Legacy", "Vintage", "Commander", "Pauper",
     "Limited"}
FORMATS ==
    [f \in FormatNames |->
        [name |-> f,
         maxCopies |-> IF f = "Commander" THEN 1 ELSE IF f = "Limited" THEN 999 ELSE 4]]

DeckSections == {"maindeck", "sideboard", "commander"}

\* The cards the search finds, by name; the name stands for the card's id.
CardNames == {<<"A">>, <<"B">>}

\* part_000:269-271 and 299-301: deckCards.findIndex, 0 standing for -1.
findIndex(cards, id, section) ==
    LET hits == {x \in 1..Len(cards) : cards[x].id = id /\ cards[x].section = section}
    IN  IF hits # {} THEN CHOOSE x \in hits : \A y \in hits : x <= y ELSE 0

\* part_000:274: the limit addCardToDeck holds an entry to.
CopyLimit(section, f) ==
    IF section = "commander" THEN 1 ELSE FORMATS[f].maxCopies

\* part_000:268-296
addCardToDeck(cards, f, id, section) ==
    LET existingCardIndex == findIndex(cards, id, section)
    IN  IF existingCardIndex > 0
        THEN IF cards[existingCardIndex].quantity >= CopyLimit(section, f)
             THEN cards
             ELSE [cards EXCEPT ![existingCardIndex].quantity = @ + 1]
        ELSE Append(cards, [id |-> id, quantity |-> 1, section |-> section])

\* Array.prototype.splice(x, 1)
Spliced(cards, x) == SubSeq(cards, 1, x - 1) \o SubSeq(cards, x + 1, Len(cards))

\* part_000:298-313
removeCardFromDeck(cards, id, section) ==
    LET existingCardIndex == findIndex(cards, id, section)
    IN  IF existingCardIndex > 0
        THEN IF cards[existingCardIndex].quantity > 1
             THEN [cards EXCEPT ![existingCardIndex].quantity = @ - 1]
             ELSE Spliced(cards, existingCardIndex)
        ELSE cards

\* String.prototype.toLowerCase
UpperChars ==
    <<"A", "B", "C", "D", "E", "F", "G", "H", "I", "J", "K", "L", "M",
      "N", "O", "P", "Q", "R", "S", "T", "U", "V", "W", "X", "Y", "Z">>
LowerChars ==
    <<"a", "b", "c", "d", "e", "f", "g", "h", "i", "j", "k", "l", "m",
      "n", "o", "p", "q", "r", "s", "t", "u", "v", "w", "x", "y", "z">>
toLowerCase(s) ==
    [x \in 1..Len(s) |->
        IF s[x] \in Upper
        THEN LowerChars[CHOOSE y \in 1..Len(UpperChars) : UpperChars[y] = s[x]]
        ELSE s[x]]

Chars(str) ==
    CASE str = "commander" -> <<"c", "o", "m", "m", "a", "n", "d", "e", "r">>
      [] str = "commander:" -> <<"c", "o", "m", "m", "a", "n", "d", "e", "r", ":">>
      [] str = "maindeck" -> <<"m", "a", "i", "n", "d", "e", "c", "k">>
      [] str = "maindeck:" -> <<"m", "a", "i", "n", "d", "e", "c", "k", ":">>
      [] str = "main deck:" -> <<"m", "a", "i", "n", " ", "d", "e", "c", "k", ":">>
      [] str = "main:" -> <<"m", "a", "i", "n", ":">>
      [] str = "main" -> <<"m", "a", "i", "n">>
      [] str = "deck:" -> <<"d", "e", "c", "k", ":">>
      [] str = "deck" -> <<"d", "e", "c", "k">>
      [] str = "sideboard" -> <<"s", "i", "d", "e", "b", "o", "a", "r", "d">>
      [] str = "sideboard:" -> <<"s", "i", "d", "e", "b", "o", "a", "r", "d", ":">>
      [] str = "side board:" -> <<"s", "i", "d", "e", " ", "b", "o", "a", "r", "d", ":">>
      [] str = "side:" -> <<"s", "i", "d", "e", ":">>
      [] str = "side" -> <<"s", "i", "d", "e">>
      [] str = "sb:" -> <<"s", "b", ":">>
      [] str = "sb" -> <<"s", "b">>

\* part_000:569-594: the section a header line opens, "none" for other lines.
HeaderSection(trimmedLine) ==
    IF Contains(trimmedLine, Chars("commander")) THEN "commander"
    ELSE IF trimmedLine \in {Chars("maindeck:"), Chars("maindeck"), Chars("main deck:"),
                             Chars("main:"), Chars("deck:"), Chars("deck"),
                             Chars("main")}
    THEN "maindeck"
    ELSE IF trimmedLine \in {Chars("sideboard:"), Chars("sideboard"),
                             Chars("side board:"), Chars("side:"), Chars("sb:"),
                             Chars("side"), Chars("sb")}
    THEN "sideboard"
    ELSE "none"

\* part_000:597-600: line.match(/^(\d+)\s+(.+)$/), parseInt of the first group
\* and the trimmed second group.  A line is free of line breaks.
CardLine(line) ==
    LET d == SpanEnd(line, 1, Digits)
        e == SpanEnd(line, d, Space)
    IN  IF d > 1 /\ e > d /\ (e <= Len(line) \/ e - d >= 2)
        THEN [found |-> TRUE, quantity |-> parseInt(SubSeq(line, 1, d - 1)),
              cardName |-> trim(SubSeq(line, e, Len(line)))]
        ELSE NoMatch

\* part_000:603-634: the search and the choice among its results, as far as
\* followed here: a card whose name is the given one but for case, if any.
FoundCards(cardName) ==
    {c \in CardNames : toLowerCase(c) = toLowerCase(cardName)}

\* part_000:561: the lines that are not blank and do not begin with "//".
Kept(lines) ==
    SelectSeq(lines, LAMBDA line :
        trim(line) # <<>> /\ ~MatchesAt(line, <<"/", "/">>, 1))

\* part_000:565-649: the loop over the lines from line x on; out is newDeckCards
\* and section is currentSection.
RECURSIVE ImportLoop(_, _, _, _)
ImportLoop(lines, x, section, out) ==
    IF x > Len(lines) THEN out
    ELSE LET line == lines[x]
             header == HeaderSection(toLowerCase(trim(line)))
             m == CardLine(line)
         IN  IF header # "none"
             THEN ImportLoop(lines, x + 1, header, out)
             ELSE IF m.found /\ FoundCards(m.cardName) # {}
             THEN ImportLoop(lines, x + 1, section,
                      Append(out, [id |-> CHOOSE c \in FoundCards(m.cardName) : TRUE,
                                   quantity |-> m.quantity, section |-> section]))
             ELSE ImportLoop(lines, x + 1, section, out)

\* part_000:559-656: the deck importDeckFromText hands to setDeckCards; lines
\* is importText.split('\n').
importDeckFromText(lines) == ImportLoop(Kept(lines), 1, "maindeck", <<>>)

\* The lines typed into the import dialog.
ImportLineTexts ==
    { <<"4", " ", "A">>, <<"2", "0", " ", "A">>, <<"0", " ", "B">>,
      <<"1", " ", " ", "b">>, <<"B">>, <<"/", "/", " ", "1", " ", "A">>,
      <<"S", "i", "d", "e", "b", "o", "a", "r", "d">>,
      <<"C", "o", "m", "m", "a", "n", "d", "e", "r", ":">> }
ImportTexts ==
    UNION { [1..m -> ImportLineTexts] : m \in 0..MaxImportLines }

DeckInit ==
    /\ FnIdle
    /\ ServerIdle

\* part_000:268-296: a card of the search results is added to a section.  (The
\* model stops adding once MaxEntries entries or MaxQuantity copies are there.)
AddCard ==
    /\ \E c \in CardNames, section \in DeckSections :
         /\ findIndex(deckCards, c, section) = 0 => Len(deckCards) < MaxEntries
         /\ findIndex(deckCards, c, section) > 0
              => deckCards[findIndex(deckCards, c, section)].quantity < MaxQuantity
         /\ deckCards' = addCardToDeck(deckCards, format, c, section)
    /\ UNCHANGED <<cronVars, fnVars, routeVars, convVars, format>>

\* part_000:298-313
RemoveCard ==
    /\ \E c \in CardNames, section \in DeckSections :
         deckCards' = removeCardFromDeck(deckCards, c, section)
    /\ UNCHANGED <<cronVars, fnVars, routeVars, convVars, format>>

\* part_000:705: the format select calls setFormat; the deck is not touched.
SelectFormat ==
    /\ \E f \in FormatNames : format' = f
    /\ UNCHANGED <<cronVars, fnVars, routeVars, convVars, deckCards>>

\* part_000:559-658: the import runs to its end and replaces the deck.  What
\* is added or removed while it awaits its searches is overwritten by line 656.
ImportDeck ==
    /\ \E lines \in ImportTexts : deckCards' = importDeckFromText(lines)
    /\ UNCHANGED <<cronVars, fnVars, routeVars, convVars, format>>

DeckNext ==
    \/ AddCard
    \/ RemoveCard
    \/ SelectFormat
    \/ ImportDeck

DeckSpec == DeckInit /\ [][DeckNext]_vars

\* C11: after an invocation whose card refresh failed (no cycle having written
\* the metadata row), the next invocation, once past its staleness check, has
\* gone on to the card refresh instead of returning "Database is up to date".
C11_FailedCycleIsRetried ==
    \A i \in Inv, j \in Inv :
        ( /\ i = j + 1
          /\ j \in inv[i].doneBefore
          /\ CardFailed(j)
          /\ lastWriter = 0
          /\ Has(i, "check") )
        => /\ ~Skipped(inv[i])
           /\ Has(i, "cards:start")

\* The rule table holds the rows 0 .. n-1 parsed by run k, each once and in
\* order, and nothing else.
HoldsParsed(table, k, n) ==
    /\ \A x \in 1..Len(table) :
         /\ table[x].run = k
         /\ table[x].from < table[x].to
         /\ table[x].from = (IF x = 1 THEN 0 ELSE table[x - 1].to)
    /\ IF n = 0 THEN table = <<>> ELSE table # <<>> /\ table[Len(table)].to = n

\* Run k of updateRulesDatabase ends with this step and returns.
UrdReturns(k) ==
    /\ Writing(inv[k])
    /\ ~Writing(inv'[k])
    /\ inv'[k].urd = Resolved(None)

\* C12: when updateRulesDatabase returns and no other run wrote to the rule
\* table while it was under way, the table holds exactly the records parsed
\* from its source, each once, and none of the earlier records.
C12_TableIsParsedSource ==
    [][ \A k \in Inv :
          (UrdReturns(k) /\ ~inv[k].disturbed)
          => HoldsParsed(rulesTable', k, inv[k].n) ]_vars

\* A run over a source of MaxRules rules has returned undisturbed and its two
\* batches are the table.
C12_Witness ==
    \E k \in Inv :
        /\ inv[k].pc = "writeMeta"
        /\ inv[k].urd = Resolved(None)
        /\ ~inv[k].disturbed
        /\ inv[k].n = MaxRules
        /\ Len(rulesTable) = 2
        /\ HoldsParsed(rulesTable, k, MaxRules)

CeilDiv(n, d) == (n + d - 1) \div d

\* C13: a run of updateRulesDatabase over n parsed rules that returns, no other
\* run having written to the table meanwhile, has
\* issued exactly ceil(n/100) inserts; every batch but the last holds 100
\* records, the last holds the remainder, and the batches in the order of
\* issue make up the parsed sequence.
C13_BatchesOfHundred ==
    [][ \A k \in Inv :
          (UrdReturns(k) /\ ~inv[k].disturbed)
          => LET n == inv[k].n
                 t == rulesTable'
             IN  /\ Len(t) = CeilDiv(n, batchSize)
                 /\ HoldsParsed(t, k, n)
                 /\ \A x \in 1..Len(t) :
                      t[x].to - t[x].from =
                        (IF x < Len(t) THEN batchSize ELSE n - (Len(t) - 1) * batchSize)
      ]_vars

\* 250 rules went in as batches of 100, 100 and 50.
C13_Witness ==
    \E k \in Inv :
        /\ inv[k].urd = Resolved(None)
        /\ inv[k].n = MaxBatchRules
        /\ Len(rulesTable) = CeilDiv(MaxBatchRules, batchSize)
        /\ rulesTable[1].to - rulesTable[1].from = batchSize
        /\ rulesTable[Len(rulesTable)].to - rulesTable[Len(rulesTable)].from
             = MaxBatchRules - (Len(rulesTable) - 1) * batchSize

\* The insert that run k of updateRulesDatabase was awaiting throws in this
\* step: the run leaves the loop and the table is as it was.
InsertFails(k) ==
    /\ inv[k].pc = "urdInsert"
    /\ inv'[k].pc # "urdInsert"
    /\ rulesTable' = rulesTable

\* What the caller of updateRulesDatabase makes of the error it threw: the
\* finish handler of the download rejects with it, the fallback reports it.
CallerSawThrow(before, after) ==
    IF before.caller = "download"
    THEN after.wotc = Rejected(Error(
             <<"Failed to process downloaded rules: ">> \o DbError.message))
    ELSE after.wotc = Resolved(FallbackFailed(before.wotcError, DbError))

\* C14: when the insert of a batch fails (no other run having written to the
\* table meanwhile), updateRulesDatabase throws the error
\* to its caller, attempts no later batch, and leaves in the rule table exactly
\* the batches inserted before it (the earlier records stay deleted).
C14_FailedBatchAborts ==
    [][ \A k \in Inv :
          (InsertFails(k) /\ ~inv[k].disturbed)
          => /\ inv'[k].urd = Rejected(DbError)
             /\ CallerSawThrow(inv[k], inv'[k])
             /\ ~Writing(inv'[k])
             /\ Len(rulesTable') = inv[k].i \div batchSize
             /\ HoldsParsed(rulesTable', k, inv[k].i) ]_vars

\* The third insert of a run over 250 rules failed over a table that held
\* earlier records: the two batches before it are what the table holds.
C14_Witness ==
    \E k \in Inv :
        /\ inv[k].urd = Rejected(DbError)
        /\ inv[k].n = MaxBatchRules
        /\ inv[k].i = 2 * batchSize
        /\ Len(rulesTable) = 2
        /\ HoldsParsed(rulesTable, k, inv[k].i)

HasAnchor(text) == indexOf(text, Anchor) # 0

\* C16: for a text that lacks the anchor "1. Game Concepts" the parser returns
\* (it raises nothing) and what it returns is the empty sequence.
C16_NoAnchorNoRules ==
    (parsedDone /\ ~HasAnchor(srcText)) => parsedOut = <<>>

\* The parser has returned nothing for a text without the anchor in which a
\* rule entry stands.
C16_Witness ==
    /\ parsedDone
    /\ ~HasAnchor(srcText)
    /\ Matches("rule", srcText) # <<>>
    /\ parsedOut = <<>>

\* The rules update of invocation k settles in this step.
RulesSettle(k) == ~Has(k, "rules:end") /\ "rules:end" \in {inv'[k].steps[x] : x \in 1..Len(inv'[k].steps)}

\* C15: when the rulebook source is unavailable (the download answers with a
\* status other than 200, the local file is missing, or the text read lacks
\* the anchor) the rules refresh ends in a result with success false.
C15_UnavailableSourceFails ==
    [][ \A k \in Inv :
          ( /\ RulesSettle(k)
            /\ \/ /\ inv'[k].wotc.kind = "rejected"
                  /\ inv'[k].wotc.error.message[1]
                       = "Failed to download rules. HTTP status: "
               \/ inv'[k].fallback /\ inv'[k].urd = Pending
               \/ /\ UrdReturns(k)
                  /\ inv[k].n = Len(parseComprehensiveRules(NoAnchorText)) )
          => /\ inv'[k].rulesResult # None
             /\ ~inv'[k].rulesResult.success ]_vars

\* The rule entries of a text as the description has them: a rule number
\* followed by "." and whitespace, and a body that runs to the next rule
\* number followed by "." or to the end of the text, whatever stands in it.
NumberAt(s, p) ==
    LET c == RuleNumberEnd(s, p) IN c # 0 /\ CharAt(s, c, ".")

NextNumber(s, p) ==
    IF p > Len(s) THEN p
    ELSE CHOOSE q \in p..(Len(s) + 1) :
            /\ q = Len(s) + 1 \/ NumberAt(s, q)
            /\ \A r \in p..(q - 1) : ~NumberAt(s, r)

RECURSIVE EntriesFrom(_, _)
EntriesFrom(s, p) ==
    LET starts == {q \in p..Len(s) :
                      /\ NumberAt(s, q)
                      /\ RuleNumberEnd(s, q) + 1 <= Len(s)
                      /\ s[RuleNumberEnd(s, q) + 1] \in Space}
    IN  IF starts = {} THEN <<>>
        ELSE LET a == CHOOSE q \in starts : \A r \in starts : q <= r
                 c == RuleNumberEnd(s, a)
                 e == NextNumber(s, c + 1)
             IN  <<[number |-> SubSeq(s, a, c - 1), body |-> TrimOf(s, c + 1, e - 1)]>>
                 \o EntriesFrom(s, e)

LongEnough(entry) == Len(entry.body) > MinRuleText

cleanTextOf(text) == substring(text, indexOf(text, Anchor))

\* C17: from the anchor on, the parser emits a record for a rule entry if and
\* only if the entry's trimmed body is longer than 10 characters, and it emits
\* the records in the order of the entries.
C17_EmitsEveryLongEntry ==
    (parsedDone /\ HasAnchor(srcText))
    => LET entries == SelectSeq(EntriesFrom(cleanTextOf(srcText), 1), LongEnough)
       IN  /\ Len(parsedOut) = Len(entries)
           /\ \A x \in 1..Len(entries) : parsedOut[x].ruleNumber = entries[x].number

\* n, all of it, is \d{3}\.\d+[a-z]?
NumberShape(n) ==
    /\ ThreeDigits(n, 1)
    /\ CharAt(n, 4, ".")
    /\ LET b == SpanEnd(n, 5, Digits)
       IN  /\ b > 5
           /\ \/ b = Len(n) + 1
              \/ b = Len(n) /\ n[b] \in Lower

\* C18: the ruleNumber of every record the parser emits is three digits, a
\* dot, one or more digits and at most one lowercase letter.
C18_NumberHasOneLetterAtMost ==
    parsedDone => \A x \in 1..Len(parsedOut) : NumberShape(parsedOut[x].ruleNumber)

Range(f) == {f[x] : x \in DOMAIN f}


\* C19, as stated: wherever "Example: X." stands in a body, X is an element of
\* the record's examples and X does not stand in the record's text.
C19_ExampleMovedAsStated ==
    parsedDone
    => \A p \in 1..Len(srcText), q \in 1..Len(srcText) :
         ( /\ MatchesAt(srcText, ExampleWord \o <<" ">>, p)
           /\ q >= p + Len(ExampleWord) + 1
           /\ srcText[q] = "." )
         => LET X == SubSeq(srcText, p + Len(ExampleWord) + 1, q - 1)
            IN  /\ X \in Range(parsedOut[1].examples)
                /\ ~Contains(parsedOut[1].text, X)

\* The examples of a body: "Example:" with a "." somewhere after it, not
\* inside an example that began before; each runs to the first "." after its
\* "Example:".
FirstPeriod(b, p) == SkipTo(b, p, {"."})
ExampleEnd(b, p) == FirstPeriod(b, p + Len(ExampleWord))
ExampleStarts(b) == {p \in 1..Len(b) : MatchesAt(b, ExampleWord, p)}
TopExamples(b) ==
    {p \in ExampleStarts(b) :
        /\ ExampleEnd(b, p) <= Len(b)
        /\ ~\E o \in ExampleStarts(b) : o < p /\ ExampleEnd(b, o) > p}

\* The characters of b from u on that stand in none of its examples.
OutsideExamples(b, u) ==
    LET tops == TopExamples(b)
        keep == {q \in u..Len(b) : ~\E p \in tops : p <= q /\ q <= ExampleEnd(b, p)}
    IN  [x \in 1..Cardinality(keep) |->
            b[CHOOSE q \in keep : Cardinality({r \in keep : r <= q}) = x]]

\* C19, amended: each example of the body, from after "Example:" and the
\* whitespace to the first "." and with that ".", is an element of the
\* record's examples, which has nothing else; and the record's text is the
\* body with its examples cut out, trimmed.
C19_ExamplesCutAtFirstPeriod ==
    parsedDone
    => LET b == srcText
           r == parsedOut[1]
       IN  /\ \A p \in TopExamples(b) :
                TrimOf(b, p + Len(ExampleWord), ExampleEnd(b, p)) \in Range(r.examples)
           /\ Len(r.examples) = Cardinality(TopExamples(b))
           /\ r.text = trim(OutsideExamples(b, 1))

\* A body with two examples has been entered: both are listed and the text is
\* shorter than the body.
C19_Witness ==
    /\ parsedDone
    /\ Cardinality(TopExamples(srcText)) = 2
    /\ Len(parsedOut[1].examples) = 2
    /\ Len(parsedOut[1].text) < Len(trim(srcText))

\* The headers of a text: a line that begins with a number, "." and a space;
\* the title is the rest of the line.
LineStarts(s) == {p \in 1..Len(s) : p = 1 \/ s[p - 1] = "\n"}
HeaderAt(s, p) ==
    LET d == SpanEnd(s, p, Digits)
    IN  d > p /\ CharAt(s, d, ".") /\ CharAt(s, d + 1, " ")
HeaderTitles(s, k) ==
    { LET d == SpanEnd(s, p, Digits)
      IN  TrimOf(s, d + 2, SkipTo(s, d + 2, {"\n"}) - 1) :
        p \in {q \in LineStarts(s) :
                 HeaderAt(s, q) /\ parseInt(SubSeq(s, q, SpanEnd(s, q, Digits) - 1)) = k} }

\* C20: every emitted rule with numeric prefix P carries the title of the
\* chapter header numbered floor(P/100) and the title of the section header
\* numbered P, whenever the text has those headers.
C20_TaggedWithHeaderTitles ==
    (parsedDone /\ HasAnchor(srcText))
    => \A x \in 1..Len(parsedOut) :
         LET r == parsedOut[x]
             P == parseInt(SubSeq(r.ruleNumber, 1, 3))
         IN  /\ \A t \in HeaderTitles(cleanTextOf(srcText), P \div 100) : r.chapter = t
             /\ \A t \in HeaderTitles(cleanTextOf(srcText), P) : r.section = t

\* C22: the "card_database" row exists only if a refresh cycle of
\* updateCardDatabase wrote it, and its last_updated is the time that cycle
\* took after its card refresh.
C22_RowIsWrittenByCyclesOnly ==
    dbMetadata # <<>>
    => /\ lastWriter # 0
       /\ CardSucceeded(lastWriter)
       /\ dbMetadata[1].last_updated = inv[lastWriter].nowCap

\* C24: a tick of the timer that comes 24 hours after the invocation before
\* it, whose cycle refreshed the cards and wrote the metadata row before the
\* tick, is not
\* stopped by the staleness gate: it goes on to the card refresh.
C24_NoTickIsSkipped ==
    \A i \in Inv, j \in Inv :
        ( /\ i = j + 1
          /\ inv[i].trigger = "timer"
          /\ j \in inv[i].doneBefore
          /\ CardSucceeded(j)
          /\ lastWriter = j
          /\ inv[i].startedAt = inv[j].startedAt + HOURS_24
          /\ inv[j].nowCap < inv[i].startedAt
          /\ Has(i, "check") )
        => /\ ~Skipped(inv[i])
           /\ Has(i, "cards:start")

\* C25: once updateRulesFromWotc() of an invocation has started a download and
\* settled, no other invocation having downloaded, the temporary file is gone.
C25_TempFileIsRemoved ==
    \A k \in Inv :
        ( /\ inv[k].dl # "none"
          /\ Has(k, "rules:end")
          /\ \A j \in Inv \ {k} : inv[j].dl = "none" )
        => ~tempFile

\* The data is fresh: the staleness check of updateCardDatabase would skip the
\* cycle, and every row of the rule table is younger than seven days.
DataFresh ==
    /\ IsUpToDate(dbMetadata, now)
    /\ rulesTable # <<>>
    /\ \A x \in 1..Len(rulesTable) : RulesFresh(rulesTable[x].createdAt, now)

\* A card reload begins: completeCardDatabaseUpdate() is called, by a cycle or
\* by a route.
CardReloadBegins ==
    \/ cardsReq.pc = "idle" /\ cardsReq'.pc = "cards"
    \/ \E k \in Inv : inv[k].pc # "cards" /\ inv'[k].pc = "cards"

\* C21: while the data is fresh no trigger, the administrative routes
\* included, begins a card reload or changes the rule table.
C21_FreshDataIsLeftAlone ==
    [][ DataFresh => (rulesTable' = rulesTable /\ ~CardReloadBegins) ]_vars

\* The runs that are writing the rule table: between the sending of their
\* delete and their last insert.
WritersInProgress ==
    Cardinality({k \in Inv : Writing(inv[k])})
    + (IF rulesReq.pc \in {"delete", "insert"} THEN 1 ELSE 0)
    + (IF importReq.pc \in {"delete", "import"} THEN 1 ELSE 0)

\* C23: at most one flow (startup call, timer, administrative route) is
\* writing the rule table at any time.
C23_OneWriterAtATime == WritersInProgress <= 1

\* Rows of the table that hold the parsed record x.
RowsOf(table, x) ==
    Cardinality({c \in 1..Len(table) : table[c].from <= x /\ x < table[c].to})

\* C26: when a run of updateRulesDatabase started by POST /api/rules/update
\* has written while the run of the startup call, on the same file, was
\* between its read and its end, and both have completed without an error, the
\* rule table holds each record of the file exactly once.
C26_OverlapLeavesEachRecordOnce ==
    \A k \in Inv :
        ( /\ inv[k].fallback
          /\ inv[k].urd = Resolved(None)
          /\ inv[k].disturbed
          /\ inv[k].n = MaxRules
          /\ rulesReq.pc = "done"
          /\ rulesReq.status = 200
          /\ rulesReq.n = MaxRules
          /\ importReq.pc = "idle" )
        => \A x \in 0..(MaxRules - 1) : RowsOf(rulesTable, x) = 1

\* POST /api/rules/update has found the local file missing or unreadable.
SourceUnreadable(req) == req.pc # "idle" /\ ~(req.exists /\ req.readable)

\* C27: when the local file is missing or cannot be read, the call started by
\* POST /api/rules/update throws at once, "Comprehensive rules file not found"
\* for a missing file, and the rule table is as it was before the call.
C27_UnreadableSourceLeavesTable ==
    [][ (rulesReq.pc = "idle" /\ SourceUnreadable(rulesReq'))
        => /\ rulesTable' = rulesTable
           /\ rulesReq'.pc = "done"
           /\ rulesReq'.status = 500
           /\ ~rulesReq'.exists
                => rulesReq'.error = Error(<<"Comprehensive rules file not found">>) ]_vars

\* The file was missing, the call has thrown, and the rows of the last cycle
\* are all there.
C27_Witness ==
    /\ SourceUnreadable(rulesReq)
    /\ ~rulesReq.exists
    /\ rulesReq.error = Error(<<"Comprehensive rules file not found">>)
    /\ rulesTable = FreshRules

\* No POST /api/rulings/ask request is in its handler.
NoAskInProgress == \A q \in Asks : asks[q].pc = "idle"

\* C28: whenever no ask request is in progress the conversation history holds
\* at most ten messages.
C28_HistoryAtMostTen ==
    NoAskInProgress => Len(currentConversation) <= HistoryLimit

\* C29: every message of the history belongs to a question asked after the
\* last reset.
C29_NoMessageFromBeforeReset ==
    \A x \in 1..Len(currentConversation) : currentConversation[x].epoch = epoch

\* C30: every entry of the deck has at least one copy and at most the limit
\* addCardToDeck enforces for its section and the selected format, and no two
\* entries have the same card and section.
C30_DeckWithinLimits ==
    /\ \A x \in 1..Len(deckCards) :
          /\ deckCards[x].quantity >= 1
          /\ deckCards[x].quantity <= CopyLimit(deckCards[x].section, format)
    /\ \A x \in 1..Len(deckCards), y \in 1..Len(deckCards) :
          (deckCards[x].id = deckCards[y].id /\ deckCards[x].section = deckCards[y].section)
          => x = y

====
